---- MODULE Spec2Model ----
(***************************************************************************)
(* A model of the sorted-table reader of coocood/badger: the block         *)
(* iterator with its old-version sidecar, the table iterator, the          *)
(* concatenating iterator and the merging iterator; of the user-facing     *)
(* iterator of a transaction with its prefetch tasks; and of the rank and  *)
(* select vectors of package surf.                                         *)
(*                                                                         *)
(* Byte strings are sequences of small naturals, compared as bytes.Compare *)
(* compares them.  A block is its base key and its decoded data: the       *)
(* entries (each the sequence of fields the builder wrote) and the base    *)
(* key length of the trailer.  The old-version region is addressed by      *)
(* offset; offset 0 is never used by a stored key.                         *)
(***************************************************************************)
EXTENDS Integers, Sequences, FiniteSets, TLC

VARIABLES
    tbl, it, h,        \* a table, an iterator of it, what was called on it
    tbls, cc, ch,      \* a list of tables, a ConcatIterator, what was called
    srcs, mrev, mpos, mh,  \* the sources of a merge iterator, its direction,
                           \* the position of each source, what was called
    uenv, ui, uh,      \* the snapshot a transaction reads and its options, the
                       \* user-facing iterator with its items, what was called
    bits, bq,          \* a bit vector, and the last query made of its
                       \* rank and select vectors
    vrec, vq,          \* a value (a ValueStruct, or an item with the value
                       \* log behind it), and the last call made on it
    bnd, bh            \* a y.Iterator over a snapshot behind the bounds of a
                       \* BoundedIterator, and the last call made on it

tvars == <<tbl, it, h>>

cvars == <<tbls, cc, ch>>

mvars == <<srcs, mrev, mpos, mh>>

uvars == <<uenv, ui, uh>>

bvars == <<bits, bq>>

wvars == <<vrec, vq>>

kvars == <<bnd, bh>>

vars == <<tvars, cvars, mvars, uvars, bvars, wvars, kvars>>

\* what the actions of one iterator leave alone
NotTable == <<cvars, mvars, uvars, bvars, wvars, kvars>>

NotConcat == <<tvars, mvars, uvars, bvars, wvars, kvars>>

NotMerge == <<tvars, cvars, uvars, bvars, wvars, kvars>>

NotUser == <<tvars, cvars, mvars, bvars, wvars, kvars>>

NotBits == <<tvars, cvars, mvars, uvars, wvars, kvars>>

NotValue == <<tvars, cvars, mvars, uvars, bvars, kvars>>

NotBounded == <<tvars, cvars, mvars, uvars, bvars, wvars>>

(***************************************************************************)
(* Bounds of the model.                                                    *)
(***************************************************************************)
\* the versions a stored key may carry are 1..MaxVer
MaxVer == 2
\* a block holds at most MaxPer entries
MaxPer == 3

\* the user keys tables are built from and seeks ask for
UserKeys == { <<1>>, <<1, 2>>, <<2>> }

\* a ConcatIterator runs over at most MaxTables tables
MaxTables == 3
\* a merge iterator runs over at most MaxSources sources
MaxSources == 3
\* the user-facing iterator is positioned (Rewind, Seek) at most MaxCalls times
MaxCalls == 2
\* Close is called at most MaxCloses times on an iterator
MaxCloses == 2

\* the depth of calls the stack of a goroutine has room for
MaxDepth == 3
\* the option PrefetchSize is in 1..MaxPrefetch
MaxPrefetch == 2

\* the versions seeks ask for
SeekVersions == 0 .. MaxVer + 1

Nil == "nil"
EOF == "EOF"
Panic == "panic"
\* the error of a block that cannot be read
ErrRead == "read error"

(***************************************************************************)
(* Byte strings and keys.                                                  *)
(***************************************************************************)
RECURSIVE BytesCompare(_, _)
BytesCompare(a, b) ==
    IF a = <<>> /\ b = <<>> THEN 0
    ELSE IF a = <<>> THEN -1
    ELSE IF b = <<>> THEN 1
    ELSE IF Head(a) < Head(b) THEN -1
    ELSE IF Head(a) > Head(b) THEN 1
    ELSE BytesCompare(Tail(a), Tail(b))

MkKey(u, v) == [UserKey |-> u, Version |-> v]

\* y.Key.Compare: user key ascending, then version descending
KeyCompare(k1, k2) ==
    LET c == BytesCompare(k1.UserKey, k2.UserKey)
    IN  IF c # 0 THEN c
        ELSE IF k1.Version > k2.Version THEN -1
        ELSE IF k1.Version < k2.Version THEN 1
        ELSE 0

KeyEqual(k1, k2) == k1.UserKey = k2.UserKey /\ k1.Version = k2.Version

\* sort.Search over the answers of the predicate: bools[h+1] is f(h)
RECURSIVE SearchFrom(_, _, _)
SearchFrom(bools, i, j) ==
    IF i < j
    THEN LET m == (i + j) \div 2
         IN  IF ~bools[m + 1] THEN SearchFrom(bools, m + 1, j)
             ELSE SearchFrom(bools, i, m)
    ELSE i

SortSearch(bools) == SearchFrom(bools, 0, Len(bools))

(***************************************************************************)
(* The table builder, as far as the reader depends on it: the layout of    *)
(* entries, blocks and the old-version region.                             *)
(***************************************************************************)
\* the packed value stored for version v of user key u
PackedValue(u, v) == << <<u, v>> >>

RECURSIVE CommonPrefixLen(_, _)
CommonPrefixLen(a, b) ==
    IF a = <<>> \/ b = <<>> \/ Head(a) # Head(b) THEN 0
    ELSE 1 + CommonPrefixLen(Tail(a), Tail(b))

\* the sorted sequence of the elements of a set of byte strings
RECURSIVE SortedKeys(_)
SortedKeys(S) ==
    IF S = {} THEN <<>>
    ELSE LET m == CHOOSE x \in S : \A y \in S : BytesCompare(x, y) <= 0
         IN  <<m>> \o SortedKeys(S \ {m})

\* the versions of a set, newest first
RECURSIVE SortedVersions(_)
SortedVersions(S) ==
    IF S = {} THEN <<>>
    ELSE LET m == CHOOSE x \in S : \A y \in S : x >= y
         IN  <<m>> \o SortedVersions(S \ {m})

\* one entry as the builder writes it: diff key length, diff key, has-old flag,
\* old offset (if any), version (unless the table has a global timestamp), value
EncodeEntry(u, baseLen, oldOffset, ver, gts) ==
    LET diff == SubSeq(u, baseLen + 1, Len(u))
    IN  <<Len(diff)>> \o diff
        \o (IF oldOffset # 0 THEN <<1, oldOffset>> ELSE <<0>>)
        \o (IF gts # 0 THEN <<>> ELSE <<ver>>)
        \o PackedValue(u, ver)

\* the old-version record of a key: its versions below the newest, newest first
OldEntries(u, vers) ==
    [i \in 1 .. Len(vers) - 1 |-> <<vers[i + 1]>> \o PackedValue(u, vers[i + 1])]

\* keys: sorted user keys; verOf: user key -> versions newest first;
\* per: entries per block; gts: global timestamp (0: none)
BuildTable(keys, verOf, per, gts) ==
    LET n == Len(keys)
        nb == (n + per - 1) \div per
        offOf(i) == IF Len(verOf[keys[i]]) > 1
                    THEN Cardinality({j \in 1 .. i : Len(verOf[keys[j]]) > 1})
                    ELSE 0
        nOld == Cardinality({j \in 1 .. n : Len(verOf[keys[j]]) > 1})
        oldKey(o) == CHOOSE i \in 1 .. n : offOf(i) = o
        blockOf(b) ==
            LET first == (b - 1) * per + 1
                last == IF b * per < n THEN b * per ELSE n
                baseKey == keys[first]
                baseLen == CommonPrefixLen(keys[first], keys[last])
            IN  [baseKey |-> baseKey,
                 baseLen |-> baseLen,
                 entries |-> [i \in 1 .. last - first + 1 |->
                     LET u == keys[first + i - 1]
                     IN  EncodeEntry(u, baseLen, offOf(first + i - 1),
                                     verOf[u][1], gts)]]
    IN  [globalTs |-> gts,
         broken |-> {},
         blocks |-> [b \in 1 .. nb |-> blockOf(b)],
         oldBlock |-> [o \in 1 .. nOld |->
                          OldEntries(keys[oldKey(o)], verOf[keys[oldKey(o)]])]]

\* the entries a table stores, in the total order: <<user key, version, value>>
RECURSIVE EntriesOf(_, _, _)
EntriesOf(keys, verOf, gts) ==
    IF keys = <<>> THEN <<>>
    ELSE LET u == Head(keys)
         IN  [i \in 1 .. Len(verOf[u]) |->
                 <<u, IF gts # 0 THEN gts ELSE verOf[u][i],
                   PackedValue(u, verOf[u][i])>>]
             \o EntriesOf(Tail(keys), verOf, gts)

\* the version sets of a stored key: the oldest k versions, or the newest alone
VersionSets == { 1 .. k : k \in 1 .. MaxVer } \cup { {MaxVer} }

\* a table of the model: the table as the reader sees it and what it stores
MkTable(K, vs, per, gts) ==
    LET keys == SortedKeys(K)
        verOf == [u \in K |-> SortedVersions(vs[u])]
    IN  [t |-> BuildTable(keys, verOf, per, gts),
         stored |-> EntriesOf(keys, verOf, gts)]

\* tables with per-entry versions
VersionedTables ==
    { MkTable(K, vs, per, 0) :
        K \in SUBSET UserKeys \ {{}}, vs \in [UserKeys -> VersionSets],
        per \in 1 .. MaxPer }

\* tables with a global timestamp: one version per key, none stored per entry
GlobalTsTables ==
    { MkTable(K, [u \in UserKeys |-> {0}], per, MaxVer) :
        K \in SUBSET UserKeys \ {{}}, per \in 1 .. MaxPer }

(***************************************************************************)
(* singleKeyIterator: the cursor over the versions of one key.             *)
(***************************************************************************)
NewSki == [oldOffset |-> 0, latestVer |-> 0, latestVal |-> <<>>,
           oldVals |-> <<>>, idx |-> 0]

ski_set(ski, T, oldOffset, latestVer, latestVal) ==
    [ski EXCEPT !.oldOffset = oldOffset,
                !.oldVals = T.oldBlock[oldOffset],
                !.latestVer = latestVer,
                !.latestVal = latestVal]

\* <<version, value>> at ski.idx; an index past the old values is a Go panic
versionAndVal(ski) ==
    IF ski.idx = 0 THEN <<ski.latestVer, ski.latestVal>>
    ELSE IF ski.idx \in 1 .. Len(ski.oldVals)
    THEN LET oldEntry == ski.oldVals[ski.idx]
         IN  <<Head(oldEntry), Tail(oldEntry)>>
    ELSE <<0, <<Panic>>>>

ski_length(ski) == Len(ski.oldVals) + 1

\* <<ski, version, value>> after the loop of seekVersion, started at index i with
\* the named results ver and val as they stand
RECURSIVE seekVersionFrom(_, _, _, _, _)
seekVersionFrom(ski, sVer, i, ver, val) ==
    LET s == [ski EXCEPT !.idx = i]
    IN  IF i < ski_length(ski)
        THEN LET vv == versionAndVal(s)
             IN  IF sVer >= vv[1] THEN <<s, vv[1], vv[2]>>
                 ELSE seekVersionFrom(ski, sVer, i + 1, vv[1], vv[2])
        ELSE <<s, ver, val>>

seekVersion(ski, sVer) == seekVersionFrom(ski, sVer, 0, 0, <<>>)

(***************************************************************************)
(* blockIterator.                                                          *)
(***************************************************************************)
NewBlockIterator(globalTs) ==
    [entries |-> <<>>, idx |-> 0, err |-> Nil, globalTs |-> globalTs,
     key |-> MkKey(<<>>, 0), val |-> <<>>, baseLen |-> 0, ski |-> NewSki]

\* loadEntries: the entries and the base key length of the block's data
loadEntries(bi, b) == [bi EXCEPT !.baseLen = b.baseLen, !.entries = b.entries]

setBlock(bi, b) ==
    LET b1 == [bi EXCEPT !.err = Nil, !.idx = 0,
                         !.key = MkKey(<<>>, 0), !.val = <<>>]
        b2 == loadEntries(b1, b)
    IN  [b2 EXCEPT !.key.UserKey = SubSeq(b.baseKey, 1, b2.baseLen)]

bi_valid(bi) == bi.err = Nil

hasOldVersion(bi) == bi.ski.oldOffset # 0

\* the end of setIdx: the key and the value are set, and the sidecar if hasOld
setKeyVal(bi, T, i, userKey, hasOld, oldOffset, version, val) ==
    [bi EXCEPT !.idx = i, !.err = Nil,
               !.key = MkKey(userKey, version),
               !.val = val,
               !.ski = IF hasOld
                       THEN ski_set([@ EXCEPT !.idx = 0], T, oldOffset, version, val)
                       ELSE [@ EXCEPT !.idx = 0]]

\* setIdx taking a version field off the entry whatever the global timestamp
setEntry_readsVersion(bi, T, i, userKey, hasOld, oldOffset, e4) ==
    setKeyVal(bi, T, i, userKey, hasOld, oldOffset,
              IF bi.globalTs # 0 THEN bi.globalTs ELSE e4[1], Tail(e4))

\* setIdx at the entry's data e4 that follow the old-version offset: the
\* version is the global timestamp, or it is read from e4
setEntry(bi, T, i, userKey, hasOld, oldOffset, e4) ==
    setKeyVal(bi, T, i, userKey, hasOld, oldOffset,
              IF bi.globalTs # 0 THEN bi.globalTs ELSE e4[1],
              IF bi.globalTs # 0 THEN e4 ELSE Tail(e4))

\* setIdx at the entry's data e2 that follow the key: the old-version flag, and
\* the offset in the sidecar if it is set
setOld(bi, T, i, userKey, e2) ==
    IF e2[1] # 0
    THEN setEntry(bi, T, i, userKey, TRUE, e2[2], SubSeq(e2, 3, Len(e2)))
    ELSE setEntry(bi, T, i, userKey, FALSE, 0, Tail(e2))

\* setIdx: decode entry i (0-based) of the loaded block
bi_setIdx(bi, T, i) ==
    IF i >= Len(bi.entries) \/ i < 0
    THEN [bi EXCEPT !.idx = i, !.err = EOF]
    ELSE LET e0 == bi.entries[i + 1]
             diffKeyLen == e0[1]
         IN  setOld(bi, T, i,
                    SubSeq(bi.key.UserKey, 1, bi.baseLen)
                        \o SubSeq(e0, 2, diffKeyLen + 1),
                    SubSeq(e0, diffKeyLen + 2, Len(e0)))

\* the binary search of blockIterator.seek: every probe moves the iterator
RECURSIVE bi_search(_, _, _, _, _)
\* the probe of entry m has moved the iterator to b
bi_probe(b, T, key, i, j, m) ==
    IF ~(BytesCompare(b.key.UserKey, key.UserKey) >= 0)
    THEN bi_search(b, T, key, m + 1, j)
    ELSE bi_search(b, T, key, i, m)

bi_search(bi, T, key, i, j) ==
    IF i < j
    THEN bi_probe(bi_setIdx(bi, T, (i + j) \div 2), T, key, i, j, (i + j) \div 2)
    ELSE <<bi, i>>

\* the version and the value that seekVersion returned as sv are taken
withVersion(bi, sv) ==
    [bi EXCEPT !.ski = sv[1], !.key.Version = sv[2], !.val = sv[3]]

\* seek, after the old versions were searched: on to the next entry if the
\* version is still too new
seekOlder(bi, T, key, foundEntryIdx) ==
    IF bi.key.Version > key.Version
    THEN bi_setIdx(bi, T, foundEntryIdx + 1)
    ELSE bi

\* seek, after setIdx(foundEntryIdx)
seekFound(bi, T, key, foundEntryIdx) ==
    IF bi.err # Nil THEN bi
    ELSE IF bi.key.Version > key.Version /\ key.UserKey = bi.key.UserKey
    THEN IF hasOldVersion(bi)
         THEN seekOlder(withVersion(bi, seekVersion(bi.ski, key.Version)),
                        T, key, foundEntryIdx)
         ELSE seekOlder(bi, T, key, foundEntryIdx)
    ELSE bi

\* seek, after the binary search returned r = <<bi, foundEntryIdx>>
seekSearched(r, T, key) == seekFound(bi_setIdx(r[1], T, r[2]), T, key, r[2])

bi_seek(bi, T, key) ==
    seekSearched(bi_search(bi, T, key, 0, Len(bi.entries)), T, key)

bi_seekToFirst(bi, T) == bi_setIdx(bi, T, 0)

seekToLastVersion(bi) ==
    IF hasOldVersion(bi)
    THEN LET s == [bi.ski EXCEPT !.idx = ski_length(bi.ski) - 1]
             vv == versionAndVal(s)
         IN  [bi EXCEPT !.ski = s, !.key.Version = vv[1], !.val = vv[2]]
    ELSE bi

\* seekToLast landing on the first entry of the block
bi_seekToLast_first(bi, T) == seekToLastVersion(bi_setIdx(bi, T, 0))

bi_seekToLast(bi, T) == seekToLastVersion(bi_setIdx(bi, T, Len(bi.entries) - 1))

\* next stepping over one entry
bi_next_skip(bi, T) == bi_setIdx(bi, T, bi.idx + 2)

bi_next(bi, T) ==
    LET s == [bi.ski EXCEPT !.idx = @ + 1]
        vv == versionAndVal(s)
    IN  IF hasOldVersion(bi)
        THEN IF s.idx < Len(s.oldVals)
             THEN [bi EXCEPT !.ski = s, !.key.Version = vv[1], !.val = vv[2]]
             ELSE bi_setIdx([bi EXCEPT !.ski = s], T, bi.idx + 1)
        ELSE bi_setIdx(bi, T, bi.idx + 1)

\* <<bi, moved>>
prevVersion(bi) ==
    LET s == [bi.ski EXCEPT !.idx = @ - 1]
        vv == versionAndVal(s)
    IN  IF hasOldVersion(bi)
        THEN IF s.idx >= 0
             THEN <<[bi EXCEPT !.ski = s, !.key.Version = vv[1], !.val = vv[2]], TRUE>>
             ELSE <<[bi EXCEPT !.ski = s], FALSE>>
        ELSE <<bi, FALSE>>

bi_prev(bi, T) ==
    LET r == prevVersion(bi)
    IN  IF r[2] THEN r[1]
        ELSE seekToLastVersion(bi_setIdx(r[1], T, bi.idx - 1))

(***************************************************************************)
(* Table and its Iterator.                                                 *)
(***************************************************************************)
NumBlocks(T) == Len(T.blocks)

\* Table.block: the decoded block idx (0-based); the read of a block in
\* T.broken fails
block(T, idx) ==
    IF idx < 0 THEN [err |-> Panic, b |-> <<>>]
    ELSE IF idx >= NumBlocks(T) THEN [err |-> EOF, b |-> <<>>]
    ELSE IF idx \in T.broken THEN [err |-> ErrRead, b |-> <<>>]
    ELSE [err |-> Nil, b |-> T.blocks[idx + 1]]

newIterator(T, reversed) ==
    [bpos |-> 0, err |-> Nil, reversed |-> reversed,
     bi |-> NewBlockIterator(T.globalTs)]

reset(itr) == [itr EXCEPT !.bpos = 0, !.err = Nil]

Valid(itr) == itr.err = Nil

Key(itr) == itr.bi.key

\* the block iterator b has moved: itr.err = itr.bi.Error()
setBi(itr, b) == [itr EXCEPT !.bi = b, !.err = b.err]

\* block(itr.bpos) has returned r; the block iterator is set on it and moved
\* to its first entry
firstOfBlock(itr, T, r) ==
    IF r.err # Nil THEN [itr EXCEPT !.err = r.err]
    ELSE setBi(itr, bi_seekToFirst(setBlock(itr.bi, r.b), T))

\* the same, to its last entry
lastOfBlock(itr, T, r) ==
    IF r.err # Nil THEN [itr EXCEPT !.err = r.err]
    ELSE setBi(itr, bi_seekToLast(setBlock(itr.bi, r.b), T))

it_seekToFirst(itr, T) ==
    IF NumBlocks(T) = 0 THEN [itr EXCEPT !.err = EOF]
    ELSE firstOfBlock([itr EXCEPT !.bpos = 0], T, block(T, 0))

it_seekToLast(itr, T) ==
    IF NumBlocks(T) = 0 THEN [itr EXCEPT !.err = EOF]
    ELSE lastOfBlock([itr EXCEPT !.bpos = NumBlocks(T) - 1], T,
                     block(T, NumBlocks(T) - 1))

\* seekInBlock, after block(blockIdx) returned r
seekInBlockOf(itr, T, r, key) ==
    IF r.err # Nil THEN [itr EXCEPT !.err = r.err]
    ELSE setBi(itr, bi_seek(setBlock(itr.bi, r.b), T, key))

seekInBlock(itr, T, blockIdx, key) ==
    seekInBlockOf([itr EXCEPT !.bpos = blockIdx], T, block(T, blockIdx), key)

\* seekFromOffset, after setIdx(offset) moved the block iterator to b: itr.err
\* is left as it is when the entry is >= key
seekFromEntry(itr, T, b, key) ==
    IF KeyCompare(b.key, key) >= 0 THEN [itr EXCEPT !.bi = b]
    ELSE setBi(itr, bi_seek(b, T, key))

\* seekFromOffset, after block(blockIdx) returned r
seekFromOffsetOf(itr, T, r, offset, key) ==
    IF r.err # Nil THEN [itr EXCEPT !.err = r.err]
    ELSE seekFromEntry(itr, T, bi_setIdx(setBlock(itr.bi, r.b), T, offset), key)

seekFromOffset(itr, T, blockIdx, offset, key) ==
    seekFromOffsetOf([itr EXCEPT !.bpos = blockIdx], T, block(T, blockIdx),
                     offset, key)

\* the first block whose base key is > the user key sought
seekBlock(T, key) ==
    SortSearch([i \in 1 .. NumBlocks(T) |->
                   BytesCompare(T.blocks[i].baseKey, key.UserKey) > 0])

\* seekFrom, after seekInBlock(idx - 1): on to block idx when block idx - 1
\* holds nothing >= key
seekFromNext(itr, T, key, idx) ==
    IF itr.err = EOF
    THEN IF idx = NumBlocks(T) THEN itr
         ELSE seekFromOffset(itr, T, idx, 0, key)
    ELSE itr

\* seekFrom, after seekBlock returned idx
seekFromBlock(itr, T, key, idx) ==
    IF idx = 0 THEN seekInBlock(itr, T, 0, key)
    ELSE seekFromNext(seekInBlock(itr, T, idx - 1, key), T, key, idx)

it_seekFrom(itr, T, key) ==
    seekFromBlock(reset([itr EXCEPT !.err = Nil]), T, key, seekBlock(T, key))

RECURSIVE it_next(_, _)
\* next, after the block iterator moved to b: on to the next block at its end
nextMoved(itr, T, b) ==
    IF ~bi_valid(b)
    THEN it_next([itr EXCEPT !.bpos = @ + 1, !.bi = [b EXCEPT !.entries = <<>>]], T)
    ELSE [itr EXCEPT !.bi = b]

\* next, after itr.err = nil
nextFrom(itr, T) ==
    IF itr.bpos >= NumBlocks(T) THEN [itr EXCEPT !.err = EOF]
    ELSE IF Len(itr.bi.entries) = 0 THEN firstOfBlock(itr, T, block(T, itr.bpos))
    ELSE nextMoved(itr, T, bi_next(itr.bi, T))

it_next(itr, T) == nextFrom([itr EXCEPT !.err = Nil], T)

RECURSIVE it_prev(_, _)
\* prev, after the block iterator moved to b: on to the previous block at its end
prevMoved(itr, T, b) ==
    IF ~bi_valid(b)
    THEN it_prev([itr EXCEPT !.bpos = @ - 1, !.bi = [b EXCEPT !.entries = <<>>]], T)
    ELSE [itr EXCEPT !.bi = b]

\* prev, after itr.err = nil
prevFrom(itr, T) ==
    IF itr.bpos < 0 THEN [itr EXCEPT !.err = EOF]
    ELSE IF Len(itr.bi.entries) = 0 THEN lastOfBlock(itr, T, block(T, itr.bpos))
    ELSE prevMoved(itr, T, bi_prev(itr.bi, T))

it_prev(itr, T) == prevFrom([itr EXCEPT !.err = Nil], T)

\* Iterator.seek of a table without a SuRF index
it_seek(itr, T, key) == it_seekFrom(reset([itr EXCEPT !.err = Nil]), T, key)

\* seekForPrev, after seekFrom
prevUnlessOn(itr, T, key) ==
    IF ~KeyEqual(Key(itr), key) THEN it_prev(itr, T) ELSE itr

it_seekForPrev(itr, T, key) == prevUnlessOn(it_seekFrom(itr, T, key), T, key)

it_Next(itr, T) == IF ~itr.reversed THEN it_next(itr, T) ELSE it_prev(itr, T)

it_Rewind(itr, T) ==
    IF ~itr.reversed THEN it_seekToFirst(itr, T) ELSE it_seekToLast(itr, T)

it_Seek(itr, T, key) ==
    IF ~itr.reversed THEN it_seek(itr, T, key) ELSE it_seekForPrev(itr, T, key)

(***************************************************************************)
(* The table iterator as a state machine: one table, one iterator, and the *)
(* record h of what was called and what the iterator showed since.         *)
(***************************************************************************)
NoKey == MkKey(<<>>, 0)

SeekKeys == { MkKey(u, v) : u \in UserKeys, v \in SeekVersions }

\* what a valid iterator shows: <<user key, version, value>>
Shown(itr) == <<itr.bi.key.UserKey, itr.bi.key.Version, itr.bi.val>>

Emit(itr) == IF Valid(itr) THEN <<Shown(itr)>> ELSE <<>>

\* h after a positioning call
Started(op, key, itr) ==
    [op |-> op, key |-> key,
     out |-> IF op \in {"seekToFirst", "seekToLast"} THEN Emit(itr) ELSE <<>>,
     past |-> FALSE]

\* h after a step in direction dir ("next" or "prev") from iterator old
Stepped(dir, old, itr) ==
    IF h.op = (IF dir = "next" THEN "seekToFirst" ELSE "seekToLast")
    THEN [h EXCEPT !.out = @ \o Emit(itr), !.past = @ \/ ~Valid(old)]
    ELSE [op |-> dir, key |-> NoKey, out |-> <<>>, past |-> FALSE]

Alive == it.err # Panic

NewHistory == [op |-> "new", key |-> NoKey, out |-> <<>>, past |-> FALSE]

\* the variables of the ConcatIterator, when it is not the one under study
CIdle ==
    /\ tbls = <<>>
    /\ cc = [idx |-> -1, cur |-> FALSE, iters |-> <<>>, reversed |-> FALSE]
    /\ ch = NewHistory

\* the variables of the merge iterator, when it is not the one under study
MIdle ==
    /\ srcs = <<>>
    /\ mrev = FALSE
    /\ mpos = <<>>
    /\ mh = [op |-> "new", out |-> <<>>]

\* the variables of the user-facing iterator, when it is not under study
UIdle ==
    /\ uenv = [stream |-> <<>>, readTs |-> 0, Reverse |-> FALSE,
               AllVersions |-> FALSE, PrefetchValues |-> FALSE,
               PrefetchSize |-> 0, internalAccess |-> FALSE]
    /\ ui = [pos |-> 1, item |-> 0, data |-> <<>>, waste |-> <<>>,
             lastKey |-> <<>>, pool |-> <<>>, closed |-> FALSE,
             numIterators |-> 0, iteratorCount |-> 0]
    /\ uh = [op |-> "new", key |-> <<>>, out |-> <<>>, calls |-> 0, got |-> <<>>]

\* the variables of the bit vectors, when they are not under study
BIdle ==
    /\ bits = [numBits |-> 0, bits |-> <<>>, numOnes |-> 0, selectLut |-> <<0>>,
               denseLut |-> <<0>>, sparseLut |-> <<0>>]
    /\ bq = [op |-> "new", arg |-> 0, res |-> 0]

\* the variables of the value, when it is not under study
WIdle ==
    /\ vrec = [Meta |-> 0, UserMeta |-> <<>>, Value |-> <<>>, Version |-> 0]
    /\ vq = [op |-> "new", buf |-> <<>>, res |-> <<>>]

\* the variables of the bounded iterator, when it is not under study
KIdle ==
    /\ bnd = [keys |-> <<>>, vers |-> <<>>, reverse |-> FALSE, start |-> <<>>,
              end |-> <<>>, pos |-> 0, ver |-> 0]
    /\ bh = [op |-> "new", arg |-> <<>>, res |-> FALSE, from |-> 0]

\* the variables of the table iterator, when it is not the one under study
TIdle ==
    /\ tbl = MkTable({}, [u \in UserKeys |-> {1}], 1, 0)
    /\ it = newIterator(tbl.t, FALSE)
    /\ h = NewHistory

TInit ==
    /\ tbl \in VersionedTables \cup GlobalTsTables
    /\ it = newIterator(tbl.t, FALSE)
    /\ h = NewHistory
    /\ CIdle
    /\ MIdle
    /\ UIdle
    /\ BIdle
    /\ WIdle /\ KIdle

SeekToFirst ==
    /\ Alive
    /\ it' = it_seekToFirst(it, tbl.t)
    /\ h' = Started("seekToFirst", NoKey, it')
    /\ UNCHANGED <<tbl, NotTable>>

SeekToLast ==
    /\ Alive
    /\ it' = it_seekToLast(it, tbl.t)
    /\ h' = Started("seekToLast", NoKey, it')
    /\ UNCHANGED <<tbl, NotTable>>

SeekFrom ==
    /\ Alive
    /\ \E q \in SeekKeys :
          /\ it' = it_seek(it, tbl.t, q)
          /\ h' = Started("seekFrom", q, it')
    /\ UNCHANGED <<tbl, NotTable>>

SeekForPrev ==
    /\ Alive
    /\ \E q \in SeekKeys :
          /\ it' = it_seekForPrev(it, tbl.t, q)
          /\ h' = Started("seekForPrev", q, it')
    /\ UNCHANGED <<tbl, NotTable>>

StepNext ==
    /\ Alive
    /\ it' = it_next(it, tbl.t)
    /\ h' = Stepped("next", it, it')
    /\ UNCHANGED <<tbl, NotTable>>

StepPrev ==
    /\ Alive
    /\ it' = it_prev(it, tbl.t)
    /\ h' = Stepped("prev", it, it')
    /\ UNCHANGED <<tbl, NotTable>>

TNext ==
    \/ SeekToFirst
    \/ SeekToLast
    \/ SeekFrom
    \/ SeekForPrev
    \/ StepNext
    \/ StepPrev

SpecTable == TInit /\ [][TNext]_vars

\* tables of two blocks and more, one of which cannot be read
FaultyTables ==
    UNION { { [tb EXCEPT !.t.broken = {b}] : b \in 0 .. NumBlocks(tb.t) - 1 } :
            tb \in { x \in VersionedTables : NumBlocks(x.t) >= 2 } }

FaultInit ==
    /\ tbl \in FaultyTables
    /\ it = newIterator(tbl.t, FALSE)
    /\ h = NewHistory
    /\ CIdle
    /\ MIdle
    /\ UIdle
    /\ BIdle
    /\ WIdle /\ KIdle

SpecFault == FaultInit /\ [][TNext]_vars

NoPanic == it.err # Panic /\ it.bi.val # <<Panic>>

(***************************************************************************)
(* What the table stores, as the claims speak of it.                       *)
(***************************************************************************)
StoredKey(e) == MkKey(e[1], e[2])

\* index in stored of the smallest entry >= q in the total order, 0 if none
FirstGE(stored, q) ==
    LET S == { i \in 1 .. Len(stored) : KeyCompare(StoredKey(stored[i]), q) >= 0 }
    IN  IF S = {} THEN 0 ELSE CHOOSE i \in S : \A j \in S : i <= j

\* index in stored of the largest entry <= q in the total order, 0 if none
LastLE(stored, q) ==
    LET S == { i \in 1 .. Len(stored) : KeyCompare(StoredKey(stored[i]), q) <= 0 }
    IN  IF S = {} THEN 0 ELSE CHOOSE i \in S : \A j \in S : i >= j

\* the iterator is valid on stored entry i, or invalid when i = 0
OnEntry(i) ==
    IF i = 0 THEN ~Valid(it) ELSE Valid(it) /\ Shown(it) = tbl.stored[i]

DistinctKeys(stored) ==
    \A i, j \in 1 .. Len(stored) : i # j => stored[i][1] # stored[j][1]

Reverse(s) == [i \in 1 .. Len(s) |-> s[Len(s) + 1 - i]]

IsPrefix(s, t) == Len(s) <= Len(t) /\ s = SubSeq(t, 1, Len(s))

(***************************************************************************)
(* ConcatIterator.  s.cur is s.iters[s.idx] whenever it is not nil, so cur *)
(* is kept as the flag "not nil"; s.iters[i] is nil until made is set.     *)
(***************************************************************************)
NoIter(T, reversed) == [made |-> FALSE, it |-> newIterator(T, reversed)]

\* Table.Smallest and Table.Biggest: the first and the last key stored
Smallest(Tr) == IF Tr.stored = <<>> THEN NoKey ELSE StoredKey(Tr.stored[1])

Biggest(Tr) ==
    IF Tr.stored = <<>> THEN NoKey ELSE StoredKey(Tr.stored[Len(Tr.stored)])

NewConcatIterator(Ts, reversed) ==
    [idx |-> -1, cur |-> FALSE,
     iters |-> [i \in 1 .. Len(Ts) |-> NoIter(Ts[i].t, reversed)],
     reversed |-> reversed]

Cur(s) == s.iters[s.idx + 1].it

cc_setIdx(s, Ts, idx) ==
    IF idx < 0 \/ idx >= Len(s.iters)
    THEN [s EXCEPT !.idx = idx, !.cur = FALSE]
    ELSE [s EXCEPT !.idx = idx, !.cur = TRUE,
                   !.iters[idx + 1] =
                       IF ~@.made
                       THEN [made |-> TRUE,
                             it |-> it_next(newIterator(Ts[idx + 1].t, s.reversed),
                                            Ts[idx + 1].t)]
                       ELSE @]

\* s.cur.Rewind()
cc_rewindCur(s, Ts) ==
    [s EXCEPT !.iters[s.idx + 1].it = it_Rewind(@, Ts[s.idx + 1].t)]

cc_Rewind(s, Ts) ==
    IF Len(s.iters) = 0 THEN s
    ELSE cc_rewindCur(cc_setIdx(s, Ts, IF ~s.reversed THEN 0
                                       ELSE Len(s.iters) - 1), Ts)

cc_Valid(s) == s.cur /\ Valid(Cur(s))

cc_Key(s) == Key(Cur(s))

\* s.cur.Seek(key)
cc_seekCur(s, Ts, key) ==
    [s EXCEPT !.iters[s.idx + 1].it = it_Seek(@, Ts[s.idx + 1].t, key)]

\* Seek, after the search over the tables returned idx
cc_seekTable(s, Ts, key, idx) ==
    IF idx >= Len(Ts) \/ idx < 0 THEN cc_setIdx(s, Ts, -1)
    ELSE cc_seekCur(cc_setIdx(s, Ts, idx), Ts, key)

cc_Seek(s, Ts, key) ==
    LET n == Len(Ts)
    IN  cc_seekTable(s, Ts, key,
            IF ~s.reversed
            THEN SortSearch([i \in 1 .. n |->
                     KeyCompare(Biggest(Ts[i]), key) >= 0])
            ELSE n - 1 - SortSearch([i \in 1 .. n |->
                     KeyCompare(Smallest(Ts[n + 1 - i]), key) <= 0]))

\* the loop of Next over the following tables
RECURSIVE cc_NextTable(_, _)
\* after s.cur.Rewind() in the loop
cc_nextRewound(s, Ts) == IF Valid(Cur(s)) THEN s ELSE cc_NextTable(s, Ts)

\* after setIdx in the loop
cc_nextAt(s, Ts) == IF ~s.cur THEN s ELSE cc_nextRewound(cc_rewindCur(s, Ts), Ts)

cc_NextTable(s, Ts) ==
    cc_nextAt(cc_setIdx(s, Ts, IF ~s.reversed THEN s.idx + 1 ELSE s.idx - 1), Ts)

\* Next, after s.cur.Next()
cc_nextStepped(s, Ts) == IF Valid(Cur(s)) THEN s ELSE cc_NextTable(s, Ts)

cc_Next(s, Ts) ==
    cc_nextStepped([s EXCEPT !.iters[s.idx + 1].it = it_Next(@, Ts[s.idx + 1].t)],
                   Ts)

(***************************************************************************)
(* The ConcatIterator as a state machine.                                  *)
(***************************************************************************)
\* the lists of tables with non-overlapping ascending key ranges: every user
\* key goes to no table (0) or to one of the m tables, in ascending order; a
\* table that gets no key is empty.  Key mv, if any, carries every version.
TableLists ==
    { [j \in 1 .. m |->
          MkTable({u \in UserKeys : f[u] = j},
                  [u \in UserKeys |-> IF u = mv THEN 1 .. MaxVer ELSE {1}],
                  per, 0)] :
        m \in 1 .. MaxTables, per \in 1 .. MaxPer, mv \in UserKeys \cup {<<>>},
        f \in { g \in [UserKeys -> 0 .. MaxTables] :
                  \A u, w \in UserKeys :
                      g[u] # 0 /\ g[w] # 0 /\ BytesCompare(u, w) < 0
                          => g[u] <= g[w] } }

\* all the entries of a list of tables, in the order of the list
RECURSIVE AllStored(_)
AllStored(Ts) ==
    IF Ts = <<>> THEN <<>> ELSE Head(Ts).stored \o AllStored(Tail(Ts))

CShown(s) == Shown(Cur(s))

CEmit(s) == IF cc_Valid(s) THEN <<CShown(s)>> ELSE <<>>

CAlive == \A i \in 1 .. Len(cc.iters) : cc.iters[i].it.err # Panic

CInit ==
    /\ tbls \in TableLists
    /\ \E r \in BOOLEAN : cc = NewConcatIterator(tbls, r)
    /\ ch = NewHistory
    /\ TIdle
    /\ MIdle
    /\ UIdle
    /\ BIdle
    /\ WIdle /\ KIdle

CRewind ==
    /\ CAlive
    /\ cc' = cc_Rewind(cc, tbls)
    /\ ch' = [op |-> "Rewind", key |-> NoKey, out |-> CEmit(cc'), past |-> FALSE]
    /\ UNCHANGED <<tbls, NotConcat>>

CSeek ==
    /\ CAlive
    /\ \E q \in SeekKeys :
          /\ cc' = cc_Seek(cc, tbls, q)
          /\ ch' = [op |-> "Seek", key |-> q, out |-> <<>>, past |-> FALSE]
    /\ UNCHANGED <<tbls, NotConcat>>

\* Next is called on a ConcatIterator that has a current table iterator
CNext ==
    /\ CAlive
    /\ cc.cur
    /\ cc' = cc_Next(cc, tbls)
    /\ ch' = IF ch.op = "Rewind"
             THEN [ch EXCEPT !.out = @ \o CEmit(cc'), !.past = @ \/ ~cc_Valid(cc)]
             ELSE [op |-> "Next", key |-> NoKey, out |-> <<>>, past |-> FALSE]
    /\ UNCHANGED <<tbls, NotConcat>>

CNextStep ==
    \/ CRewind
    \/ CSeek
    \/ CNext

SpecConcat == CInit /\ [][CNextStep]_vars

\* the ConcatIterator is valid on entry i of all stored entries, or invalid (i = 0)
COnEntry(i) ==
    IF i = 0 THEN ~cc_Valid(cc)
    ELSE cc_Valid(cc) /\ CShown(cc) = AllStored(tbls)[i]

(***************************************************************************)
(* MergeIterator: a two-way tournament tree over the sources lo..hi, built *)
(* as NewMergeIterator builds it (the first half of the list against the   *)
(* second).  A source is a sorted sequence of entries <<user key, version, *)
(* value>> and its position; S holds the sources in iteration order.       *)
(***************************************************************************)
Mid(lo, hi) == lo + (hi - lo + 1) \div 2

SrcValid(S, pos, i) == pos[i] <= Len(S[i])

SrcKey(S, pos, i) == StoredKey(S[i][pos[i]])

\* k1 comes before k2 in the direction of the iteration
Before(k1, k2, rev) ==
    IF rev THEN KeyCompare(k1, k2) > 0 ELSE KeyCompare(k1, k2) < 0

\* the source the node lo..hi stands on (its smaller child's), 0 when not valid;
\* of two children on the same key the first wins
RECURSIVE m_src(_, _, _, _, _)
m_src(S, pos, rev, lo, hi) ==
    IF lo = hi THEN (IF SrcValid(S, pos, lo) THEN lo ELSE 0)
    ELSE LET a == m_src(S, pos, rev, lo, Mid(lo, hi) - 1)
             b == m_src(S, pos, rev, Mid(lo, hi), hi)
         IN  IF a = 0 THEN b
             ELSE IF b = 0 THEN a
             ELSE IF Before(SrcKey(S, pos, b), SrcKey(S, pos, a), rev) THEN b
             ELSE a

RECURSIVE m_next(_, _, _, _, _)
RECURSIVE m_fix(_, _, _, _, _)
\* fix leaving both children on the same key
m_fix_keepsBoth(S, pos, rev, lo, hi) == pos

\* fix advancing the first child when both children stand on the same key
m_fix_advancesFirst(S, pos, rev, lo, hi) ==
    LET a == m_src(S, pos, rev, lo, Mid(lo, hi) - 1)
        b == m_src(S, pos, rev, Mid(lo, hi), hi)
    IN  IF a # 0 /\ b # 0 /\ KeyEqual(SrcKey(S, pos, a), SrcKey(S, pos, b))
        THEN m_fix(S, m_next(S, pos, rev, lo, Mid(lo, hi) - 1), rev, lo, hi)
        ELSE pos

\* fix: while both children stand on the same key, the second is advanced
m_fix(S, pos, rev, lo, hi) ==
    LET a == m_src(S, pos, rev, lo, Mid(lo, hi) - 1)
        b == m_src(S, pos, rev, Mid(lo, hi), hi)
    IN  IF a # 0 /\ b # 0 /\ KeyEqual(SrcKey(S, pos, a), SrcKey(S, pos, b))
        THEN m_fix(S, m_next(S, pos, rev, Mid(lo, hi), hi), rev, lo, hi)
        ELSE pos

\* Next: the smaller child is advanced, then fix
m_next(S, pos, rev, lo, hi) ==
    LET c == m_src(S, pos, rev, lo, hi)
    IN  IF lo = hi
        THEN (IF SrcValid(S, pos, lo) THEN [pos EXCEPT ![lo] = @ + 1] ELSE pos)
        ELSE IF c = 0 THEN pos
        ELSE IF c < Mid(lo, hi)
        THEN m_fix(S, m_next(S, pos, rev, lo, Mid(lo, hi) - 1), rev, lo, hi)
        ELSE m_fix(S, m_next(S, pos, rev, Mid(lo, hi), hi), rev, lo, hi)

\* Rewind: both children are rewound, then fix
RECURSIVE m_rewind(_, _, _, _, _)
m_rewind(S, pos, rev, lo, hi) ==
    IF lo = hi THEN [pos EXCEPT ![lo] = 1]
    ELSE m_fix(S, m_rewind(S, m_rewind(S, pos, rev, lo, Mid(lo, hi) - 1),
                           rev, Mid(lo, hi), hi), rev, lo, hi)

\* the position of the first entry of a source at or after key in its direction
SrcSeek(seq, key, rev) ==
    LET G == { i \in 1 .. Len(seq) : ~Before(StoredKey(seq[i]), key, rev) }
    IN  IF G = {} THEN Len(seq) + 1 ELSE CHOOSE i \in G : \A j \in G : i <= j

\* Seek: both children seek, then fix
RECURSIVE m_seek(_, _, _, _, _, _)
m_seek(S, pos, rev, lo, hi, key) ==
    IF lo = hi THEN [pos EXCEPT ![lo] = SrcSeek(S[lo], key, rev)]
    ELSE m_fix(S, m_seek(S, m_seek(S, pos, rev, lo, Mid(lo, hi) - 1, key),
                         rev, Mid(lo, hi), hi, key), rev, lo, hi)

(***************************************************************************)
(* The merge iterator as a state machine.                                  *)
(***************************************************************************)
\* the keys the sources of the model hold, in the total order
MergeKeys == << MkKey(<<1>>, 2), MkKey(<<1>>, 1), MkKey(<<2>>, 1) >>

\* source i holding the keys with indices in I: its values name the source
Source(i, I) ==
    LET idx == SortedVersions(I)
    IN  [j \in 1 .. Len(idx) |->
            LET k == MergeKeys[idx[Len(idx) + 1 - j]]
            IN  <<k.UserKey, k.Version, <<i, k.UserKey, k.Version>> >>]

SourceLists ==
    UNION { { [i \in 1 .. n |-> Source(i, c[i])] :
                c \in [1 .. n -> SUBSET (1 .. Len(MergeKeys))] } :
            n \in 2 .. MaxSources }

\* the sources in the order they are iterated
InOrder(ss, rev) == [i \in 1 .. Len(ss) |-> IF rev THEN Reverse(ss[i]) ELSE ss[i]]

MS == InOrder(srcs, mrev)

MCur == m_src(MS, mpos, mrev, 1, Len(srcs))

MValid == MCur # 0

MShown == MS[MCur][mpos[MCur]]

MEmit(pos) ==
    LET c == m_src(MS, pos, mrev, 1, Len(srcs))
    IN  IF c = 0 THEN <<>> ELSE <<MS[c][pos[c]]>>

MInit ==
    /\ srcs \in SourceLists
    /\ mrev \in BOOLEAN
    /\ mpos = [i \in 1 .. Len(srcs) |-> 1]
    /\ mh = [op |-> "new", out |-> <<>>]
    /\ TIdle
    /\ CIdle
    /\ UIdle
    /\ BIdle
    /\ WIdle /\ KIdle

MRewind ==
    /\ mpos' = m_rewind(MS, mpos, mrev, 1, Len(srcs))
    /\ mh' = [op |-> "Rewind", out |-> MEmit(mpos')]
    /\ UNCHANGED <<srcs, mrev, NotMerge>>

\* the keys sought: the keys the sources may hold, and one that none holds
MergeSeekKeys ==
    { MergeKeys[i] : i \in 1 .. Len(MergeKeys) } \cup { MkKey(<<1, 2>>, 1) }

MSeek ==
    /\ \E q \in MergeSeekKeys :
          /\ mpos' = m_seek(MS, mpos, mrev, 1, Len(srcs), q)
          /\ mh' = [op |-> "Seek", out |-> MEmit(mpos')]
    /\ UNCHANGED <<srcs, mrev, NotMerge>>

\* Next is called on a valid merge iterator that was positioned
MNext ==
    /\ mh.op # "new"
    /\ MValid
    /\ mpos' = m_next(MS, mpos, mrev, 1, Len(srcs))
    /\ mh' = [mh EXCEPT !.out = @ \o MEmit(mpos')]
    /\ UNCHANGED <<srcs, mrev, NotMerge>>

MNextStep ==
    \/ MRewind
    \/ MSeek
    \/ MNext

SpecMerge == MInit /\ [][MNextStep]_vars

(***************************************************************************)
(* The properties of the table iterator.                                   *)
(***************************************************************************)
\* C1: after seek(q) through the block index (seekFrom), whatever the
\* iterator's previous position, the iterator is valid on the smallest stored
\* entry >= q in the (user key ascending, version descending) order, or
\* invalid when no stored entry is >= q, also when q falls between two blocks.
C1_SeekFromLandsOnFirstGE ==
    h.op = "seekFrom" => OnEntry(FirstGE(tbl.stored, h.key))

VersionsOf(u) ==
    { tbl.stored[i][2] : i \in { j \in 1 .. Len(tbl.stored) : tbl.stored[j][1] = u } }

MaxOf(V) == CHOOSE v \in V : \A w \in V : w <= v

\* the index of the stored entry (u, v)
EntryAt(u, v) ==
    CHOOSE i \in 1 .. Len(tbl.stored) : tbl.stored[i][1] = u /\ tbl.stored[i][2] = v

\* the index of the first stored entry of the user key after u, 0 if u is the last
NextUserKey(u) ==
    LET N == { i \in 1 .. Len(tbl.stored) : BytesCompare(tbl.stored[i][1], u) > 0 }
    IN  IF N = {} THEN 0 ELSE CHOOSE i \in N : \A j \in N : i <= j

\* C2: for a stored user key u, positioning at (u, t) leaves the iterator on
\* (u, vi) with vi the largest stored version <= t and that version's value;
\* if no version of u is <= t, on the first entry of the next user key, or
\* invalid when u is the last key.
C2_PositionsOnLargestVersionLE ==
    (h.op = "seekFrom" /\ VersionsOf(h.key.UserKey) # {}) =>
        LET u == h.key.UserKey
            V == { v \in VersionsOf(u) : v <= h.key.Version }
        IN  IF V # {} THEN OnEntry(EntryAt(u, MaxOf(V)))
            ELSE OnEntry(NextUserKey(u))

\* C3: seekForPrev(q) leaves the iterator on the largest stored entry <= q in
\* the total order, or invalid when every stored entry is > q.
C3_SeekForPrevLandsOnLastLE ==
    h.op = "seekForPrev" => OnEntry(LastLE(tbl.stored, h.key))

\* C4: on a table of n entries with distinct user keys, over any number of
\* blocks, seekToFirst followed by next()s yields the stored entries in
\* ascending order, each once and with its own value, and the iterator is
\* invalid exactly after the n-th.
C4_ForwardYieldsAllOnce ==
    (h.op = "seekToFirst" /\ DistinctKeys(tbl.stored)) =>
        /\ IsPrefix(h.out, tbl.stored)
        /\ Valid(it) => (h.out # <<>> /\ Shown(it) = h.out[Len(h.out)] /\ ~h.past)
        /\ ~Valid(it) => h.out = tbl.stored

\* C4's case: a table of several blocks was iterated forward to its end
C4_Witness ==
    /\ h.op = "seekToFirst"
    /\ DistinctKeys(tbl.stored)
    /\ NumBlocks(tbl.t) >= 2
    /\ Len(h.out) = Cardinality(UserKeys)
    /\ ~Valid(it)
    /\ tbl.t.globalTs = 0

\* C5: on a table of n entries with distinct user keys, seekToLast followed by
\* prev()s yields the stored entries in descending order, each once; after the
\* n-th the iterator is invalid, and it stays invalid after a further prev().
C5_ReverseYieldsAllOnce ==
    (h.op = "seekToLast" /\ DistinctKeys(tbl.stored)) =>
        /\ IsPrefix(h.out, Reverse(tbl.stored))
        /\ Valid(it) => (h.out # <<>> /\ Shown(it) = h.out[Len(h.out)])
        /\ ~Valid(it) => h.out = Reverse(tbl.stored)
        /\ h.past => (~Valid(it) /\ Alive)

\* C5's case: a table was iterated backward to its end, and prev() called again
C5_Witness ==
    /\ h.op = "seekToLast"
    /\ DistinctKeys(tbl.stored)
    /\ NumBlocks(tbl.t) >= 2
    /\ Len(h.out) = Cardinality(UserKeys)
    /\ h.past

\* C6: with a global timestamp g # 0, at every position reached the key shown
\* has version g, and key and value are those of a stored entry: the value is
\* decoded without taking a version field from the entry.
C6_GlobalTsVersion ==
    (tbl.t.globalTs # 0 /\ h.op # "new" /\ Valid(it)) =>
        /\ it.bi.key.Version = tbl.t.globalTs
        /\ \E i \in 1 .. Len(tbl.stored) : Shown(it) = tbl.stored[i]

\* C6's case: an iterator of a table with a global timestamp moved by next()
\* to an entry that is not the first of its block
C6_Witness ==
    /\ tbl.t.globalTs # 0
    /\ h.op = "seekToFirst"
    /\ Len(h.out) >= 2
    /\ Valid(it)
    /\ it.bi.idx > 0

(***************************************************************************)
(* The properties of the ConcatIterator.                                   *)
(***************************************************************************)
\* C7: Seek(q) lands, in forward mode, on the smallest entry >= q over all
\* tables and, in reverse mode, on the largest entry <= q, and is invalid when
\* there is none; also for q between two tables and on an exhausted iterator.
C7_ConcatSeek ==
    ch.op = "Seek" =>
        COnEntry(IF cc.reversed THEN LastLE(AllStored(tbls), ch.key)
                 ELSE FirstGE(AllStored(tbls), ch.key))

\* C8: Rewind() and repeated Next() yield the concatenation of the tables'
\* entries in the order of the tables (reverse mode: the reverse sequence),
\* and the iterator is invalid exactly after the last of them.
C8_ConcatYieldsConcatenation ==
    ch.op = "Rewind" =>
        LET Want == IF cc.reversed THEN Reverse(AllStored(tbls))
                    ELSE AllStored(tbls)
        IN  /\ IsPrefix(ch.out, Want)
            /\ ~cc_Valid(cc) => ch.out = Want

(***************************************************************************)
(* The properties of the merge iterator.                                   *)
(***************************************************************************)
\* the sources that hold the key of entry e
Holders(e) ==
    { i \in 1 .. Len(srcs) :
        \E j \in 1 .. Len(srcs[i]) : KeyEqual(StoredKey(srcs[i][j]), StoredKey(e)) }

\* the first listed of the sources that hold the key of entry e
FirstHolder(e) == CHOOSE i \in Holders(e) : \A j \in Holders(e) : i <= j

\* the keys the sources hold
AllKeys ==
    UNION { { StoredKey(srcs[i][j]) : j \in 1 .. Len(srcs[i]) } :
            i \in 1 .. Len(srcs) }

\* C9: what the merge iterator has shown since it was positioned is strictly
\* increasing in the total order (strictly decreasing in reverse mode); a key
\* held by several sources is shown with the value of the first listed of
\* them, and no other source is left standing on the key shown.
C9_MergeOrdered ==
    mh.op # "new" =>
        /\ \A i, j \in 1 .. Len(mh.out) :
              i < j => Before(StoredKey(mh.out[i]), StoredKey(mh.out[j]), mrev)
        /\ \A i \in 1 .. Len(mh.out) :
              \E j \in 1 .. Len(srcs[FirstHolder(mh.out[i])]) :
                  mh.out[i] = srcs[FirstHolder(mh.out[i])][j]
        /\ MValid =>
              \A i \in 1 .. Len(srcs) :
                  (i # MCur /\ SrcValid(MS, mpos, i))
                      => ~KeyEqual(SrcKey(MS, mpos, i), StoredKey(MShown))

\* C9's case: a key held by two sources was shown, and another key after it
C9_Witness ==
    /\ mh.op # "new"
    /\ Len(mh.out) >= 2
    /\ Cardinality(Holders(mh.out[1])) >= 2
    /\ FirstHolder(mh.out[1]) = 1

\* C10: after Rewind() and Next()s the merge iterator has shown no key twice;
\* it is valid exactly while some source is not exhausted, and once it is
\* invalid every key held by some source has been shown, exactly once.
C10_MergeEmitsEachOnce ==
    mh.op = "Rewind" =>
        /\ \A i, j \in 1 .. Len(mh.out) :
              i # j => ~KeyEqual(StoredKey(mh.out[i]), StoredKey(mh.out[j]))
        /\ MValid <=> \E i \in 1 .. Len(srcs) : SrcValid(MS, mpos, i)
        /\ ~MValid =>
              /\ { StoredKey(mh.out[i]) : i \in 1 .. Len(mh.out) } = AllKeys
              /\ Len(mh.out) = Cardinality(AllKeys)

\* C10's case: sources that share a key, the later listed one holding the
\* smallest key, were merged to their end
C10_Witness ==
    /\ mh.op = "Rewind"
    /\ ~MValid
    /\ Len(mh.out) = Len(MergeKeys)
    /\ \E i \in 1 .. Len(mh.out) : Cardinality(Holders(mh.out[i])) >= 2
    /\ FirstHolder(mh.out[1]) > 1

(***************************************************************************)
(* The user-facing iterator of a transaction.  Its inner iterator iitr is  *)
(* the merge of all sources: the stream of the snapshot's entries, each    *)
(* (user key, version) once, in the total order or, reversed, in the       *)
(* opposite order.  An entry is <<user key, version, ValueStruct>>; s is   *)
(* the iterator (ui) and E the snapshot with the options (uenv).  Items    *)
(* live in s.pool and are named by their index; a list of items is the     *)
(* sequence of their indices, and the nil item is 0.                       *)
(***************************************************************************)
\* prefetchStatus prefetched
prefetched == 1

\* the meta byte of a value: no bit set, or bitDelete
Live == "live"
Deleted == "deleted"

mi_Valid(s, E) == s.pos <= Len(E.stream)

mi_Key(s, E) == StoredKey(E.stream[s.pos])

mi_Value(s, E) == E.stream[s.pos][3]

mi_Next(s, E) == IF mi_Valid(s, E) THEN [s EXCEPT !.pos = @ + 1] ELSE s

mi_Rewind(s) == [s EXCEPT !.pos = 1]

mi_Seek(s, E, key) == [s EXCEPT !.pos = SrcSeek(E.stream, key, E.Reverse)]

\* the prefix of the keys badger keeps for itself, which sort before the user's
badgerPrefix == <<0>>

\* bytes.HasPrefix
HasPrefix(b, prefix) == IsPrefix(prefix, b)

\* SameKey that never holds: lastKey is not looked at
SameKey_never(lastKey, key) == FALSE

\* y.SameKey of lastKey (empty, or one key with its timestamp) and key
SameKey(lastKey, key) == lastKey # <<>> /\ lastKey[1].UserKey = key.UserKey

\* &Item{}: val is <<>> when nil, else <<the value>>
ZeroItem ==
    [key |-> <<>>, version |-> 0, meta |-> Live, vptr |-> <<>>, val |-> <<>>,
     err |-> Nil, status |-> 0, wg |-> 0]

\* list.push and list.pop
push(l, i) == Append(l, i)

\* the item newItem returns: the head of waste, or a new one
newItemId(s) == IF s.waste # <<>> THEN Head(s.waste) ELSE Len(s.pool) + 1

\* the iterator after newItem
newItem(s) ==
    IF s.waste # <<>> THEN [s EXCEPT !.waste = Tail(@)]
    ELSE [s EXCEPT !.pool = Append(@, ZeroItem)]

\* fill: item id takes the entry iitr stands on; with PrefetchValues a task
\* is started for it
fill(s, E, id) ==
    [s EXCEPT !.pool[id] =
        [@ EXCEPT !.meta = mi_Value(s, E).Meta,
                  !.version = mi_Key(s, E).Version,
                  !.key = mi_Key(s, E).UserKey,
                  !.vptr = mi_Value(s, E).Value,
                  !.val = <<>>,
                  !.wg = IF E.PrefetchValues THEN @ + 1 ELSE @]]

\* yieldItemValue of a value held inline: <<val, err>>
yieldItemValue(x) == << <<x.vptr>>, Nil >>

\* the task fill starts: prefetchValue, then wg.Done()
prefetchValue(x) ==
    [x EXCEPT !.err = yieldItemValue(x)[2], !.status = prefetched,
              !.val = yieldItemValue(x)[1], !.wg = @ - 1]

\* Item.Value after wg.Wait(): <<val, err>>
Value(x) == IF x.status = prefetched THEN <<x.val, x.err>> ELSE yieldItemValue(x)

\* setItem of parseItem
setItem(s, id) ==
    IF s.item = 0 THEN [s EXCEPT !.item = id]
    ELSE [s EXCEPT !.data = push(@, id)]

\* parseItem from the label FILL on: <<iterator, result>>
RECURSIVE fillLoop(_, _)
\* after fill(item) and mi.Next(), without the look at the next version
filled_noLookahead(s, E, id) == <<setItem(s, id), TRUE>>

\* after fill(item) and mi.Next()
filled(s, E, id) ==
    IF ~E.Reverse \/ ~mi_Valid(s, E) THEN <<setItem(s, id), TRUE>>
    ELSE IF mi_Key(s, E).Version <= E.readTs
            /\ mi_Key(s, E).UserKey = s.pool[id].key
    THEN fillLoop(s, E)
    ELSE <<setItem(s, id), TRUE>>

\* parseItem on the path of a deleted entry without mi.Next()
fillLoop_staysOnDeleted(s, E) ==
    IF mi_Value(s, E).Meta = Deleted THEN <<s, FALSE>>
    ELSE filled(mi_Next(fill(newItem(s), E, newItemId(s)), E), E, newItemId(s))

\* FILL without the test of the delete bit
fillLoop_keepsDeleted(s, E) ==
    filled(mi_Next(fill(newItem(s), E, newItemId(s)), E), E, newItemId(s))

fillLoop(s, E) ==
    IF mi_Value(s, E).Meta = Deleted THEN <<mi_Next(s, E), FALSE>>
    ELSE filled(mi_Next(fill(newItem(s), E, newItemId(s)), E), E, newItemId(s))

\* parseItem without the skip of the versions beyond readTs
parseItem_ignoresReadTs(s, E) ==
    IF ~E.internalAccess /\ HasPrefix(mi_Key(s, E).UserKey, badgerPrefix)
    THEN <<mi_Next(s, E), FALSE>>
    ELSE IF E.AllVersions
    THEN <<mi_Next(setItem(fill(newItem(s), E, newItemId(s)), newItemId(s)), E),
           TRUE>>
    ELSE IF ~E.Reverse
    THEN IF SameKey(s.lastKey, mi_Key(s, E)) THEN <<mi_Next(s, E), FALSE>>
         ELSE fillLoop([s EXCEPT !.lastKey = <<mi_Key(s, E)>>], E)
    ELSE fillLoop(s, E)

\* parseItem: <<iterator, result>>
parseItem(s, E) ==
    IF ~E.internalAccess /\ HasPrefix(mi_Key(s, E).UserKey, badgerPrefix)
    THEN <<mi_Next(s, E), FALSE>>
    ELSE IF mi_Key(s, E).Version > E.readTs THEN <<mi_Next(s, E), FALSE>>
    ELSE IF E.AllVersions
    THEN <<mi_Next(setItem(fill(newItem(s), E, newItemId(s)), newItemId(s)), E),
           TRUE>>
    ELSE IF ~E.Reverse
    THEN IF SameKey(s.lastKey, mi_Key(s, E)) THEN <<mi_Next(s, E), FALSE>>
         ELSE fillLoop([s EXCEPT !.lastKey = <<mi_Key(s, E)>>], E)
    ELSE fillLoop(s, E)

prefetchSize(E) ==
    IF E.PrefetchValues /\ E.PrefetchSize > 1 THEN E.PrefetchSize ELSE 2

\* the loop of prefetch, count items parsed so far
RECURSIVE prefetchLoop(_, _, _)
\* after parseItem returned r
prefetchParsed(r, E, count) ==
    IF ~r[2] THEN prefetchLoop(r[1], E, count)
    ELSE IF count + 1 = prefetchSize(E) THEN r[1]
    ELSE prefetchLoop(r[1], E, count + 1)

prefetchLoop(s, E, count) ==
    IF mi_Valid(s, E) THEN prefetchParsed(parseItem(s, E), E, count) ELSE s

\* prefetch that puts the current item on waste instead of dropping it
prefetch_recycles(s, E) ==
    prefetchLoop([s EXCEPT !.item = 0,
                           !.waste = IF s.item # 0 THEN push(@, s.item) ELSE @],
                 E, 0)

prefetch(s, E) == prefetchLoop([s EXCEPT !.item = 0], E, 0)

\* the loop of Next
RECURSIVE nextLoop(_, _)
\* after parseItem returned r
nextParsed(r, E) == IF r[2] THEN r[1] ELSE nextLoop(r[1], E)

nextLoop(s, E) == IF mi_Valid(s, E) THEN nextParsed(parseItem(s, E), E) ELSE s

\* it.item taken from the tail of data
popData_last(s) ==
    IF s.data = <<>> THEN [s EXCEPT !.item = 0]
    ELSE [s EXCEPT !.item = s.data[Len(s.data)],
                   !.data = SubSeq(@, 1, Len(@) - 1)]

\* it.item = it.data.pop()
popData(s) ==
    IF s.data = <<>> THEN [s EXCEPT !.item = 0]
    ELSE [s EXCEPT !.item = Head(s.data), !.data = Tail(@)]

\* Next, after it.item.wg.Wait()
ui_Next(s, E) == nextLoop(popData([s EXCEPT !.waste = push(@, s.item)]), E)

\* the loop of Rewind and of Seek that moves the items of data to waste, after
\* each was waited for; then lastKey is emptied
drainData(s) ==
    [s EXCEPT !.waste = @ \o s.data, !.data = <<>>, !.lastKey = <<>>]

ui_Rewind(s, E) == prefetch(mi_Rewind(drainData(s)), E)

\* Seek that appends timestamp 0 to the key in both directions
ui_Seek_oldest(s, E, key) ==
    IF Len(key) = 0 THEN prefetch(mi_Rewind(drainData(s)), E)
    ELSE prefetch(mi_Seek(drainData(s), E, MkKey(key, 0)), E)

ui_Seek(s, E, key) ==
    IF Len(key) = 0 THEN prefetch(mi_Rewind(drainData(s)), E)
    ELSE prefetch(mi_Seek(drainData(s), E,
                          MkKey(key, IF ~E.Reverse THEN E.readTs ELSE 0)), E)

ui_Valid(s) == s.item # 0

\* Close, after the items of waste and of data were waited for; numIterators
\* is the counter of the transaction and iteratorCount that of the value log,
\* both counted up by NewIterator
ui_Close(s) ==
    [s EXCEPT !.closed = TRUE, !.iteratorCount = @ - 1, !.numIterators = @ - 1]

\* a Wait that returns at once
Waited_atOnce(s, l) == TRUE

\* wg.Wait() returns for every item of the list l
Waited(s, l) == \A j \in 1 .. Len(l) : s.pool[l[j]].wg = 0

(***************************************************************************)
(* The user-facing iterator as a state machine.  A call that waits         *)
(* (wg.Wait()) is enabled when what it waits for is done; the task of an   *)
(* item is one step, UTask.  uh records the last call, the key of the last *)
(* Seek, the items set as current since the last Rewind or Seek (out),     *)
(* and what the last Value() returned (got).                               *)
(***************************************************************************)
\* the keys a snapshot may hold, in the total order
SnapshotKeys == << MkKey(<<1>>, 2), MkKey(<<1>>, 1), MkKey(<<2>>, 2), MkKey(<<2>>, 1) >>

Absent == "absent"

ReadTimestamps == { 1, 2 }

\* the entries of SnapshotKeys from i on that c holds; the value names its entry
RECURSIVE SnapshotFrom(_, _)
SnapshotFrom(c, i) ==
    IF i > Len(SnapshotKeys) THEN <<>>
    ELSE (IF c[i] = Absent THEN <<>>
          ELSE << <<SnapshotKeys[i].UserKey, SnapshotKeys[i].Version,
                    [Meta |-> c[i],
                     Value |-> <<SnapshotKeys[i].UserKey, SnapshotKeys[i].Version>>]>> >>)
         \o SnapshotFrom(c, i + 1)

Snapshots ==
    { SnapshotFrom(c, 1) : c \in [1 .. Len(SnapshotKeys) -> { Absent, Live, Deleted }] }

\* the snapshots that hold every key of SnapshotKeys, live or deleted, the last
\* one live
FullSnapshots ==
    { db \in Snapshots : Len(db) = Len(SnapshotKeys) /\ db[Len(db)][3].Meta = Live }

\* the keys given to Seek
USeekKeys == UserKeys \cup { <<>> }

\* the entries of the snapshot in the total order
Snap == IF uenv.Reverse THEN Reverse(uenv.stream) ELSE uenv.stream

\* what an item shows: <<user key, version, meta>>
ItemShown(s, id) == <<s.pool[id].key, s.pool[id].version, s.pool[id].meta>>

UEmit(s) == IF ui_Valid(s) THEN <<ItemShown(s, s.item)>> ELSE <<>>

\* NewIterator with the options opt over snapshot db at readTs
UInit(db, ts, opt) ==
    /\ uenv = [stream |-> IF opt.Reverse THEN Reverse(db) ELSE db, readTs |-> ts,
               Reverse |-> opt.Reverse, AllVersions |-> opt.AllVersions,
               PrefetchValues |-> opt.PrefetchValues,
               PrefetchSize |-> opt.PrefetchSize, internalAccess |-> FALSE]
    /\ ui = [pos |-> 1, item |-> 0, data |-> <<>>, waste |-> <<>>,
             lastKey |-> <<>>, pool |-> <<>>, closed |-> FALSE,
             numIterators |-> 1, iteratorCount |-> 1]
    /\ uh = [op |-> "new", key |-> <<>>, out |-> <<>>, calls |-> 0, got |-> <<>>]

\* iterators that fetch values on demand
IterInit ==
    /\ TIdle /\ CIdle /\ MIdle /\ BIdle /\ WIdle /\ KIdle
    /\ \E db \in Snapshots, ts \in ReadTimestamps, rev \in BOOLEAN, all \in BOOLEAN :
          UInit(db, ts, [Reverse |-> rev, AllVersions |-> all,
                         PrefetchValues |-> FALSE, PrefetchSize |-> 0])

\* iterators that prefetch values
PrefetchInit ==
    /\ TIdle /\ CIdle /\ MIdle /\ BIdle /\ WIdle /\ KIdle
    /\ \E db \in FullSnapshots, ts \in ReadTimestamps, rev \in BOOLEAN, all \in BOOLEAN,
          n \in 1 .. MaxPrefetch :
          UInit(db, ts, [Reverse |-> rev, AllVersions |-> all,
                         PrefetchValues |-> TRUE, PrefetchSize |-> n])

URewind ==
    /\ ~ui.closed /\ uh.calls < MaxCalls
    /\ Waited(ui, ui.data)
    /\ ui' = ui_Rewind(ui, uenv)
    /\ uh' = [op |-> "Rewind", key |-> <<>>, out |-> UEmit(ui'),
              calls |-> uh.calls + 1, got |-> <<>>]
    /\ UNCHANGED <<uenv, NotUser>>

USeek ==
    /\ ~ui.closed /\ uh.calls < MaxCalls
    /\ Waited(ui, ui.data)
    /\ \E key \in USeekKeys :
          /\ ui' = ui_Seek(ui, uenv, key)
          /\ uh' = [op |-> "Seek", key |-> key, out |-> UEmit(ui'),
                    calls |-> uh.calls + 1, got |-> <<>>]
    /\ UNCHANGED <<uenv, NotUser>>

UNext ==
    /\ ~ui.closed /\ ui_Valid(ui)
    /\ Waited(ui, <<ui.item>>)
    /\ ui' = ui_Next(ui, uenv)
    /\ uh' = [uh EXCEPT !.op = "Next", !.out = @ \o UEmit(ui'), !.got = <<>>]
    /\ UNCHANGED <<uenv, NotUser>>

\* Item.Value of the current item
UValue ==
    /\ ~ui.closed /\ ui_Valid(ui) /\ uh.got = <<>>
    /\ Waited(ui, <<ui.item>>)
    /\ uh' = [uh EXCEPT !.got = <<Value(ui.pool[ui.item])>>]
    /\ UNCHANGED <<uenv, ui, NotUser>>

\* the task of some item runs to its end
UTask ==
    /\ \E id \in 1 .. Len(ui.pool) :
          /\ ui.pool[id].wg > 0
          /\ ui' = [ui EXCEPT !.pool[id] = prefetchValue(@)]
    /\ UNCHANGED <<uenv, uh, NotUser>>

UClose ==
    /\ ui.numIterators > 1 - MaxCloses
    /\ Waited(ui, ui.waste \o ui.data)
    /\ ui' = ui_Close(ui)
    /\ uh' = [uh EXCEPT !.op = "Close", !.got = <<>>]
    /\ UNCHANGED <<uenv, NotUser>>

IterNext == URewind \/ USeek \/ UNext

PrefetchNext == URewind \/ USeek \/ UNext \/ UValue \/ UTask \/ UClose

SpecIter == IterInit /\ [][IterNext]_vars

SpecPrefetch == PrefetchInit /\ [][PrefetchNext]_vars

(***************************************************************************)
(* The calls of parseItem one by one, as the loops of Next and of prefetch *)
(* make them, over snapshots that hold a key of badger's own as well.  uh   *)
(* records in out what each call returned.                                  *)
(***************************************************************************)
\* the entries of badger's own key that a snapshot may begin with
InternalEntries ==
    { <<>>,
      << <<badgerPrefix \o <<1>>, 1, [Meta |-> Live, Value |-> <<badgerPrefix, 1>>]>> >>,
      << <<badgerPrefix \o <<1>>, 2, [Meta |-> Deleted, Value |-> <<badgerPrefix, 2>>]>>,
         <<badgerPrefix \o <<1>>, 1, [Meta |-> Live, Value |-> <<badgerPrefix, 1>>]>> >> }

ParseInit ==
    /\ TIdle /\ CIdle /\ MIdle /\ BIdle /\ WIdle /\ KIdle
    /\ \E db \in Snapshots, own \in InternalEntries, ts \in ReadTimestamps,
          rev \in BOOLEAN, all \in BOOLEAN, internal \in BOOLEAN :
          /\ uenv = [stream |-> IF rev THEN Reverse(own \o db) ELSE own \o db,
                     readTs |-> ts, Reverse |-> rev, AllVersions |-> all,
                     PrefetchValues |-> FALSE, PrefetchSize |-> 0,
                     internalAccess |-> internal]
          /\ ui = [pos |-> 1, item |-> 0, data |-> <<>>, waste |-> <<>>,
                   lastKey |-> <<>>, pool |-> <<>>, closed |-> FALSE,
                   numIterators |-> 1, iteratorCount |-> 1]
    /\ uh = [op |-> "new", key |-> <<>>, out |-> <<>>, calls |-> 0, got |-> <<>>]

\* one turn of the loop of Next or of prefetch: parseItem is called while the
\* merged iterator is valid
UParseItem ==
    /\ mi_Valid(ui, uenv)
    /\ ui' = parseItem(ui, uenv)[1]
    /\ uh' = [uh EXCEPT !.op = "parseItem",
                        !.out = Append(@, parseItem(ui, uenv)[2])]
    /\ UNCHANGED <<uenv, NotUser>>

\* Next before its loop: the current item goes to waste and the head of data
\* becomes the current item
UPopItem ==
    /\ ui_Valid(ui)
    /\ ui' = popData([ui EXCEPT !.waste = push(@, ui.item)])
    /\ uh' = [uh EXCEPT !.op = "Next"]
    /\ UNCHANGED <<uenv, NotUser>>

ParseNext == UParseItem \/ UPopItem

SpecParse == ParseInit /\ [][ParseNext]_vars

(***************************************************************************)
(* The user-facing iterator: what it shows of the snapshot.                *)
(***************************************************************************)
\* the indices in Snap of the versions of user key u that are <= readTs
Readable(u) ==
    { i \in 1 .. Len(Snap) : Snap[i][1] = u /\ Snap[i][2] <= uenv.readTs }

\* the index in Snap of the newest version of u that is <= readTs, 0 if none
Newest(u) ==
    IF Readable(u) = {} THEN 0
    ELSE CHOOSE i \in Readable(u) : \A j \in Readable(u) : Snap[j][2] <= Snap[i][2]

\* u is visible: its newest version <= readTs exists and is not a tombstone
Visible(u) == Newest(u) # 0 /\ Snap[Newest(u)][3].Meta = Live

\* C11: with AllVersions false, of the items shown between a Rewind or Seek
\* and the iterator becoming invalid no two have the same user key, and each
\* carries the newest version of its key that is <= readTs, forward and
\* reverse.
C11_OneNewestPerKey ==
    ~uenv.AllVersions =>
        /\ DistinctKeys(uh.out)
        /\ \A i \in 1 .. Len(uh.out) :
              /\ Newest(uh.out[i][1]) # 0
              /\ uh.out[i][2] = Snap[Newest(uh.out[i][1])][2]

\* a reverse iteration came to its end, having shown two keys that each have
\* two versions <= readTs
C11_Witness ==
    /\ ~uenv.AllVersions /\ uenv.Reverse
    /\ uh.op = "Next" /\ ~ui_Valid(ui)
    /\ Len(uh.out) = 2
    /\ \A i \in 1 .. 2 : Cardinality(Readable(uh.out[i][1])) = 2

\* C12: with AllVersions false, a user key whose newest version <= readTs is a
\* tombstone is not shown at all, neither the tombstone nor an older version:
\* every item shown is of a visible key and is not deleted, forward and
\* reverse.
C12_TombstoneHidesKey ==
    ~uenv.AllVersions =>
        \A i \in 1 .. Len(uh.out) :
            /\ Visible(uh.out[i][1])
            /\ uh.out[i][3] # Deleted

\* a reverse iteration came to its end over a snapshot in which the newest
\* readable version of some key is a tombstone over an older live version, and
\* showed the other key
C12_Witness ==
    /\ ~uenv.AllVersions /\ uenv.Reverse
    /\ uh.op = "Next" /\ ~ui_Valid(ui)
    /\ Len(uh.out) = 1
    /\ \E u \in UserKeys :
          /\ Cardinality(Readable(u)) = 2
          /\ Snap[Newest(u)][3].Meta = Deleted
          /\ \E i \in Readable(u) : Snap[i][3].Meta = Live

\* C13: every item shown, and every item held ready in data, has a version
\* <= readTs, after any sequence of Rewind, Seek and Next, in both directions,
\* with AllVersions set or not.
C13_VersionWithinReadTs ==
    /\ \A i \in 1 .. Len(uh.out) : uh.out[i][2] <= uenv.readTs
    /\ ui_Valid(ui) => ui.pool[ui.item].version <= uenv.readTs
    /\ \A j \in 1 .. Len(ui.data) : ui.pool[ui.data[j]].version <= uenv.readTs

\* with AllVersions, an iteration came to its end over a snapshot that holds
\* two versions beyond readTs, and showed two items
C13_Witness ==
    /\ uenv.AllVersions
    /\ uh.op = "Next" /\ ~ui_Valid(ui)
    /\ Len(uh.out) = 2
    /\ Cardinality({ i \in 1 .. Len(Snap) : Snap[i][2] > uenv.readTs }) = 2

\* C14: with AllVersions false, the user keys of the items shown one after
\* the other are strictly increasing in a forward iteration and strictly
\* decreasing in a reverse one.
C14_KeysMonotonic ==
    ~uenv.AllVersions =>
        \A i \in 1 .. Len(uh.out) - 1 :
            IF uenv.Reverse
            THEN BytesCompare(uh.out[i][1], uh.out[i + 1][1]) > 0
            ELSE BytesCompare(uh.out[i][1], uh.out[i + 1][1]) < 0

\* a Next of a forward iteration showed a second key, over a snapshot that
\* holds four entries
C14_Witness ==
    /\ ~uenv.AllVersions /\ ~uenv.Reverse
    /\ uh.op = "Next" /\ ui_Valid(ui)
    /\ Len(uh.out) = 2 /\ Len(Snap) = 4

\* the visible user keys at or after k in the direction of the iteration
SeekTargets(k) ==
    { u \in UserKeys :
        /\ Visible(u)
        /\ IF uenv.Reverse THEN BytesCompare(u, k) <= 0 ELSE BytesCompare(u, k) >= 0 }

\* the first of them in the direction of the iteration
SeekTarget(k) ==
    CHOOSE u \in SeekTargets(k) :
        \A w \in SeekTargets(k) :
            IF uenv.Reverse THEN BytesCompare(w, u) <= 0 ELSE BytesCompare(w, u) >= 0

\* right after Seek(k), k not empty, the current item is the newest readable
\* version of the first visible key from k on, and there is none when no key
\* from k on is visible
SeekLandsOnTarget ==
    (uh.op = "Seek" /\ uh.key # <<>>) =>
        IF SeekTargets(uh.key) = {} THEN ~ui_Valid(ui)
        ELSE /\ ui_Valid(ui)
             /\ ui.pool[ui.item].key = SeekTarget(uh.key)
             /\ ui.pool[ui.item].version = Snap[Newest(SeekTarget(uh.key))][2]
             /\ ui.pool[ui.item].meta = Live

\* C15 as stated: after Seek(k), k not empty, whatever was shown before, the
\* current item is the smallest visible user key >= k (forward) or the largest
\* visible user key <= k (reverse), and the iterator is invalid when there is
\* no such key.
C15_AsStated == SeekLandsOnTarget

\* C15: with AllVersions false, after Seek(k), k not empty, whatever was shown
\* before, the current item is the smallest visible user key >= k (forward) or
\* the largest visible user key <= k (reverse), and the iterator is invalid
\* when there is no such key.
C15_SeekLandsOnVisible == ~uenv.AllVersions => SeekLandsOnTarget

\* a second positioning, a reverse Seek of a key the snapshot does not hold,
\* landed on a key before it whose newest version is not the oldest
C15_Witness ==
    /\ ~uenv.AllVersions /\ uenv.Reverse
    /\ uh.op = "Seek" /\ uh.calls = 2 /\ uh.key = <<1, 2>>
    /\ ui_Valid(ui)
    /\ Cardinality(Readable(ui.pool[ui.item].key)) = 2

Pending == { id \in 1 .. Len(ui.pool) : ui.pool[id].wg > 0 }

\* C17: when Close() has returned, every task started by the iterator has
\* completed, whatever Rewind, Seek and Next came before.
C17_CloseWaitsForTasks == ui.closed => Pending = {}

\* C18: the number of tasks started and not completed is at most PrefetchSize,
\* after any sequence of Rewind, Seek and Next, in either direction.
C18_PendingWithinPrefetchSize ==
    uenv.PrefetchValues => Cardinality(Pending) <= uenv.PrefetchSize

(***************************************************************************)
(* surf's bit vectors.  A word (uint64) is the set of its set bits' offsets *)
(* in 0 .. wordSize-1, bit pos of a vector being bit pos % wordSize of word *)
(* pos / wordSize; a slice is a sequence, indexed from 1 where Go indexes   *)
(* from 0.  No number here comes near 2^32.                                 *)
(***************************************************************************)
wordSize == 64

selectSampleInterval == 64

rankDenseBlockSize == 64

rankSparseBlockSize == 512

\* w << n and w >> n of a uint64
shl(w, n) == { b + n : b \in { x \in w : x + n < wordSize } }

shr(w, n) == { b - n : b \in { x \in w : x >= n } }

\* bits.OnesCount64
OnesCount64(w) == Cardinality(w)

\* select64: the offset of the rank-th set bit of w, rank counted from 1
select64(w, rank) == CHOOSE b \in w : Cardinality({ x \in w : x < b }) = rank - 1

\* readBit
readBit(bs, pos) == (pos % wordSize) \in bs[pos \div wordSize + 1]

\* popcountBlock: the set bits among the nbits bits that start at word off
popcountBlock(bs, off, nbits) ==
    Cardinality({ p \in 0 .. nbits - 1 : readBit(bs, off * wordSize + p) })

\* bitVector.numWords
numWords(numBits) ==
    IF numBits % wordSize # 0 THEN numBits \div wordSize + 1 ELSE numBits \div wordSize

\* v.bits[id] |= w
orWord(bs, id, w) == [bs EXCEPT ![id + 1] = @ \cup w]

\* bitVector.Init, a level being [n, bits]; st is [bits, wordID, bitShift]
\* the second half of a complete word, after wordID++
spillWord(st, w) ==
    IF st.bitShift > 0
    THEN [st EXCEPT !.bits = orWord(@, st.wordID, shr(w, wordSize - st.bitShift))]
    ELSE st

\* putWord without the second half of the word
putWord_noSpill(st, w) ==
    [st EXCEPT !.bits = orWord(@, st.wordID, shl(w, st.bitShift)), !.wordID = @ + 1]

putWord(st, w) ==
    spillWord([st EXCEPT !.bits = orWord(@, st.wordID, shl(w, st.bitShift)),
                         !.wordID = @ + 1], w)

RECURSIVE putWords(_, _, _)
putWords(st, lv, word) ==
    IF word < lv.n \div wordSize
    THEN putWords(putWord(st, lv.bits[word + 1]), lv, word + 1)
    ELSE st

\* after v.bits[wordID] |= lastWord << bitShift
putRemainShifted(st, lastWord, remain) ==
    IF st.bitShift + remain <= wordSize
    THEN [st EXCEPT !.bitShift = (st.bitShift + remain) % wordSize,
                    !.wordID = IF (st.bitShift + remain) % wordSize = 0
                               THEN @ + 1 ELSE @]
    ELSE [st EXCEPT !.wordID = @ + 1,
                    !.bits = orWord(@, st.wordID + 1,
                                    shr(lastWord, wordSize - st.bitShift)),
                    !.bitShift = st.bitShift + remain - wordSize]

putRemain(st, lv) ==
    IF lv.n % wordSize > 0
    THEN putRemainShifted(
             [st EXCEPT !.bits = orWord(@, st.wordID,
                                        shl(lv.bits[lv.n \div wordSize + 1], st.bitShift))],
             lv.bits[lv.n \div wordSize + 1], lv.n % wordSize)
    ELSE st

RECURSIVE putLevels(_, _, _)
putLevels(st, levels, l) ==
    IF l > Len(levels) THEN st
    ELSE IF levels[l].n = 0 THEN putLevels(st, levels, l + 1)
    ELSE putLevels(putRemain(putWords(st, levels[l], 0), levels[l]), levels, l + 1)

RECURSIVE sumBits(_, _)
sumBits(levels, l) ==
    IF l > Len(levels) THEN 0 ELSE levels[l].n + sumBits(levels, l + 1)

\* bitVector.Init: v.bits
bitVectorInit(levels) ==
    putLevels([bits |-> [i \in 1 .. numWords(sumBits(levels, 1)) |-> {}],
               wordID |-> 0, bitShift |-> 0], levels, 1).bits

\* selectVector.Init: the loop over the words, from word i on
RECURSIVE lutWords(_, _, _, _, _)
\* the inner loop, for word i
RECURSIVE lutSamples(_, _, _, _, _)
lutSamples(bs, i, sampledOnes, onesUptoWord, lut) ==
    IF sampledOnes <= onesUptoWord + OnesCount64(bs[i + 1])
    THEN lutSamples(bs, i, sampledOnes + selectSampleInterval, onesUptoWord,
                    Append(lut, i * wordSize
                                + select64(bs[i + 1], sampledOnes - onesUptoWord)))
    ELSE lutWords(bs, i + 1,
                  sampledOnes, onesUptoWord + OnesCount64(bs[i + 1]), lut)

\* <<selectLut, numOnes>>
lutWords(bs, i, sampledOnes, onesUptoWord, lut) ==
    IF i < Len(bs) THEN lutSamples(bs, i, sampledOnes, onesUptoWord, lut)
    ELSE <<lut, onesUptoWord>>

selectInit(bs) == lutWords(bs, 0, selectSampleInterval, 0, <<0>>)

\* bits.TrailingZeros64 of a word that is not 0
TrailingZeros64(w) == CHOOSE b \in w : \A x \in w : b <= x

\* bitVector.DistanceToNextSetBit: the loop over the words after wordOff
RECURSIVE distanceScan(_, _, _)
\* after wordOff++
distanceAt(v, wordOff, distance) ==
    IF v.bits[wordOff + 1] # {}
    THEN distance + TrailingZeros64(v.bits[wordOff + 1])
    ELSE distanceScan(v, wordOff, distance + wordSize)

distanceScan(v, wordOff, distance) ==
    IF wordOff < numWords(v.numBits) - 1 THEN distanceAt(v, wordOff + 1, distance)
    ELSE IF wordOff = numWords(v.numBits) - 1 /\ v.numBits % wordSize # 0
    THEN distance - (wordSize - (v.numBits % wordSize))
    ELSE distance

\* distanceFrom without distance += wordSize - bitsOff before the loop
distanceFrom_noCarry(v, pos, wordOff, bitsOff) ==
    IF wordOff >= Len(v.bits) THEN 0
    ELSE IF shr(v.bits[wordOff + 1], bitsOff) # {}
    THEN 1 + TrailingZeros64(shr(v.bits[wordOff + 1], bitsOff))
    ELSE IF wordOff = numWords(v.numBits) - 1 THEN v.numBits - pos
    ELSE distanceScan(v, wordOff, 1)

\* with wordOff and bitsOff of pos + 1
distanceFrom(v, pos, wordOff, bitsOff) ==
    IF wordOff >= Len(v.bits) THEN 0
    ELSE IF shr(v.bits[wordOff + 1], bitsOff) # {}
    THEN 1 + TrailingZeros64(shr(v.bits[wordOff + 1], bitsOff))
    ELSE IF wordOff = numWords(v.numBits) - 1 THEN v.numBits - pos
    ELSE distanceScan(v, wordOff, 1 + wordSize - bitsOff)

DistanceToNextSetBit(v, pos) ==
    distanceFrom(v, pos, (pos + 1) \div wordSize, (pos + 1) % wordSize)

\* bits.LeadingZeros64 of a word that is not 0
LeadingZeros64(w) == wordSize - 1 - (CHOOSE b \in w : \A x \in w : b >= x)

\* bitVector.DistanceToPrevSetBit: the loop over the words before wordOff
RECURSIVE prevScan(_, _, _)
prevScan(v, wordOff, distance) ==
    IF wordOff > 0
    THEN IF v.bits[wordOff] # {}
         THEN distance + LeadingZeros64(v.bits[wordOff])
         ELSE prevScan(v, wordOff - 1, distance + wordSize)
    ELSE distance

\* prevFromWord that takes the words before wordOff for whole words to pos
prevFromWord_wholeWords(v, wordOff, bitsOff) ==
    IF shl(v.bits[wordOff + 1], wordSize - 1 - bitsOff) # {}
    THEN 1 + LeadingZeros64(shl(v.bits[wordOff + 1], wordSize - 1 - bitsOff))
    ELSE prevScan(v, wordOff, 1 + wordSize)

\* with wordOff and bitsOff of pos - 1
prevFromWord(v, wordOff, bitsOff) ==
    IF shl(v.bits[wordOff + 1], wordSize - 1 - bitsOff) # {}
    THEN 1 + LeadingZeros64(shl(v.bits[wordOff + 1], wordSize - 1 - bitsOff))
    ELSE prevScan(v, wordOff, 1 + bitsOff + 1)

DistanceToPrevSetBit(v, pos) ==
    IF pos = 0 THEN 1
    ELSE prevFromWord(v, (pos - 1) \div wordSize, (pos - 1) % wordSize)

\* rankVector.init: rankLut, from block i on
RECURSIVE rankLutFrom(_, _, _, _, _)
rankLutFrom(bs, blockSize, nblks, i, totalRank) ==
    IF i < nblks - 1
    THEN <<totalRank>>
         \o rankLutFrom(bs, blockSize, nblks, i + 1,
                        totalRank + popcountBlock(bs, i * (blockSize \div wordSize),
                                                  blockSize))
    ELSE <<totalRank>>

rankInit(bs, numBits, blockSize) ==
    rankLutFrom(bs, blockSize, numBits \div blockSize + 1, 0, 0)

\* the select vector and the two rank vectors made of the same levels
vectorsOf(numBits, bs) ==
    [numBits |-> numBits, bits |-> bs,
     numOnes |-> selectInit(bs)[2], selectLut |-> selectInit(bs)[1],
     denseLut |-> rankInit(bs, numBits, rankDenseBlockSize),
     sparseLut |-> rankInit(bs, numBits, rankSparseBlockSize)]

NewVectors(levels) == vectorsOf(sumBits(levels, 1), bitVectorInit(levels))

\* selectVector.Select: the scan of the words from wordOff on, w being the
\* word at wordOff with the bits at and before the sample cleared
RECURSIVE selectScan(_, _, _, _)
selectScan(v, wordOff, w, rankLeft) ==
    IF OnesCount64(w) < rankLeft
    THEN selectScan(v, wordOff + 1, v.bits[wordOff + 2], rankLeft - OnesCount64(w))
    ELSE wordOff * wordSize + select64(w, rankLeft)

\* from bit bitsOff of word wordOff on
selectAfter(v, wordOff, bitsOff, rankLeft) ==
    selectScan(v, wordOff, shl(shr(v.bits[wordOff + 1], bitsOff), bitsOff), rankLeft)

\* with the sample pos and what is left of the rank
selectFrom(v, pos, rankLeft) ==
    IF rankLeft = 0 THEN pos
    ELSE IF pos % wordSize = wordSize - 1
    THEN selectAfter(v, pos \div wordSize + 1, 0, rankLeft)
    ELSE selectAfter(v, pos \div wordSize, (pos % wordSize) + 1, rankLeft)

Select(v, rank) ==
    selectFrom(v, v.selectLut[rank \div selectSampleInterval + 1],
               IF rank \div selectSampleInterval = 0
               THEN (rank % selectSampleInterval) - 1
               ELSE rank % selectSampleInterval)

\* a dense Rank that counts the bits before pos only
RankDense_before(v, pos) ==
    v.denseLut[pos \div rankDenseBlockSize + 1]
    + popcountBlock(v.bits, (pos \div rankDenseBlockSize) * (rankDenseBlockSize \div wordSize),
                    pos % rankDenseBlockSize)

\* rankVectorDense.Rank and rankVectorSparse.Rank
RankDense(v, pos) ==
    v.denseLut[pos \div rankDenseBlockSize + 1]
    + popcountBlock(v.bits, (pos \div rankDenseBlockSize) * (rankDenseBlockSize \div wordSize),
                    (pos % rankDenseBlockSize) + 1)

RankSparse(v, pos) ==
    v.sparseLut[pos \div rankSparseBlockSize + 1]
    + popcountBlock(v.bits, (pos \div rankSparseBlockSize) * (rankSparseBlockSize \div wordSize),
                    (pos % rankSparseBlockSize) + 1)

\* align: n rounded up to a multiple of 8
align(n) == ((n + 7) \div 8) * 8

\* u64SliceToBytes: the 8 bytes of each word, lowest byte first
byteOfWord(w, k) ==
    (IF 8 * k \in w THEN 1 ELSE 0) + (IF 8 * k + 1 \in w THEN 2 ELSE 0)
    + (IF 8 * k + 2 \in w THEN 4 ELSE 0) + (IF 8 * k + 3 \in w THEN 8 ELSE 0)
    + (IF 8 * k + 4 \in w THEN 16 ELSE 0) + (IF 8 * k + 5 \in w THEN 32 ELSE 0)
    + (IF 8 * k + 6 \in w THEN 64 ELSE 0) + (IF 8 * k + 7 \in w THEN 128 ELSE 0)

u64SliceToBytes(ws) ==
    [i \in 1 .. 8 * Len(ws) |-> byteOfWord(ws[((i - 1) \div 8) + 1], (i - 1) % 8)]

\* bytesToU64Slice
wordOfBytes(b, i) ==
    { x \in 0 .. wordSize - 1 : (b[8 * i + (x \div 8) + 1] \div (2 ^ (x % 8))) % 2 = 1 }

bytesToU64Slice(b) == [i \in 1 .. Len(b) \div 8 |-> wordOfBytes(b, i - 1)]

\* endian.PutUint32 and endian.Uint32 (little endian)
PutUint32(x) == <<x % 256, (x \div 256) % 256, (x \div 65536) % 256, x \div 16777216>>

Uint32(b) == b[1] + 256 * b[2] + 65536 * b[3] + 16777216 * b[4]

\* u32SliceToBytes
u32SliceToBytes(s) ==
    [i \in 1 .. 4 * Len(s) |-> PutUint32(s[((i - 1) \div 4) + 1])[((i - 1) % 4) + 1]]

\* bytesToU32Slice
bytesToU32Slice(b) ==
    [i \in 1 .. Len(b) \div 4 |-> Uint32(SubSeq(b, 4 * i - 3, 4 * i))]

\* buf[from : to] and buf[from :]
Slice(buf, from, to) == SubSeq(buf, from + 1, to)

SliceFrom(buf, from) == SubSeq(buf, from + 1, Len(buf))

\* zeros[:padding]
Zeros(padding) == [i \in 1 .. padding |-> 0]

\* bitVector.bitsSize
bitsSize(numBits) == numWords(numBits) * 8

\* a table size that leaves the first sample out
lutSize_short(v) == (v.numOnes \div selectSampleInterval) * 4

\* selectVector.lutSize
selectVector_lutSize(v) == (v.numOnes \div selectSampleInterval + 1) * 4

\* selectVector.rawMarshalSize
selectVector_rawMarshalSize(v) == 4 + 4 + bitsSize(v.numBits) + selectVector_lutSize(v)

\* selectVector.MarshalSize
selectVector_MarshalSize(v) == align(selectVector_rawMarshalSize(v))

\* selectVector.WriteTo: the bytes written
selectVector_WriteTo(v) ==
    PutUint32(v.numBits) \o PutUint32(v.numOnes)
    \o u64SliceToBytes(v.bits) \o u32SliceToBytes(v.selectLut)
    \o Zeros(selectVector_MarshalSize(v) - selectVector_rawMarshalSize(v))

\* selectVector.Unmarshal, the header read: [v, rest]
selectVector_fill(buf, v) ==
    [v |-> [v EXCEPT
              !.bits = bytesToU64Slice(Slice(buf, 8, 8 + bitsSize(v.numBits))),
              !.selectLut =
                  bytesToU32Slice(Slice(buf, 8 + bitsSize(v.numBits),
                                        8 + bitsSize(v.numBits)
                                        + selectVector_lutSize(v)))],
     rest |-> SliceFrom(buf, align(8 + bitsSize(v.numBits) + selectVector_lutSize(v)))]

selectVector_Unmarshal(buf) ==
    selectVector_fill(buf, [numBits |-> Uint32(buf), numOnes |-> Uint32(SliceFrom(buf, 4)),
                            bits |-> <<>>, selectLut |-> <<>>])

\* rankVector.lutSize
rankVector_lutSize(v) == (v.numBits \div v.blockSize + 1) * 4

\* rankVector.rawMarshalSize
rankVector_rawMarshalSize(v) == 4 + 4 + bitsSize(v.numBits) + rankVector_lutSize(v)

\* rankVector.MarshalSize
rankVector_MarshalSize(v) == align(rankVector_rawMarshalSize(v))

\* rankVector.WriteTo: the bytes written
rankVector_WriteTo(v) ==
    PutUint32(v.numBits) \o PutUint32(v.blockSize)
    \o u64SliceToBytes(v.bits) \o u32SliceToBytes(v.rankLut)
    \o Zeros(rankVector_MarshalSize(v) - rankVector_rawMarshalSize(v))

\* rankVector.Unmarshal, the header read: [v, rest]
rankVector_fill(buf, v) ==
    [v |-> [v EXCEPT
              !.bits = bytesToU64Slice(Slice(buf, 8, 8 + bitsSize(v.numBits))),
              !.rankLut =
                  bytesToU32Slice(Slice(buf, 8 + bitsSize(v.numBits),
                                        8 + bitsSize(v.numBits)
                                        + rankVector_lutSize(v)))],
     rest |-> SliceFrom(buf, align(8 + bitsSize(v.numBits) + rankVector_lutSize(v)))]

rankVector_Unmarshal(buf) ==
    rankVector_fill(buf, [numBits |-> Uint32(buf), blockSize |-> Uint32(SliceFrom(buf, 4)),
                          bits |-> <<>>, rankLut |-> <<>>])

\* labelVector.Init: the labels of the levels startLevel .. endLevel-1 (counted
\* from 0) one after the other, and one byte more
RECURSIVE levelBytes(_, _, _)
levelBytes(perLevel, l, endLevel) ==
    IF l < endLevel THEN perLevel[l + 1] \o levelBytes(perLevel, l + 1, endLevel)
    ELSE <<>>

labelVector_Init(labelsPerLevel, startLevel, endLevel) ==
    [labels |-> levelBytes(labelsPerLevel, startLevel, endLevel) \o <<0>>]

\* labelVector.rawMarshalSize
labelVector_rawMarshalSize(v) == 4 + Len(v.labels)

\* labelVector.MarshalSize
labelVector_MarshalSize(v) == align(labelVector_rawMarshalSize(v))

\* labelVector.WriteTo: the bytes written
labelVector_WriteTo(v) ==
    PutUint32(Len(v.labels)) \o v.labels
    \o Zeros(labelVector_MarshalSize(v) - labelVector_rawMarshalSize(v))

\* labelVector.Unmarshal: [v, rest]
labelVector_Unmarshal(buf) ==
    [v |-> [labels |-> Slice(buf, 4, 4 + Uint32(buf))],
     rest |-> SliceFrom(buf, align(4 + Uint32(buf)))]

\* valueVector.Init
valueVector_Init(valuesPerLevel, valueSize) ==
    [bytes |-> levelBytes(valuesPerLevel, 0, Len(valuesPerLevel)),
     valueSize |-> valueSize]

\* valueVector.rawMarshalSize
valueVector_rawMarshalSize(v) == 8 + Len(v.bytes)

\* valueVector.MarshalSize
valueVector_MarshalSize(v) == align(valueVector_rawMarshalSize(v))

\* valueVector.WriteTo: the bytes written
valueVector_WriteTo(v) ==
    PutUint32(Len(v.bytes)) \o PutUint32(v.valueSize) \o v.bytes
    \o Zeros(valueVector_MarshalSize(v) - valueVector_rawMarshalSize(v))

\* valueVector.Unmarshal: [v, rest]
valueVector_Unmarshal(buf) ==
    [v |-> [bytes |-> Slice(buf, 8, 8 + Uint32(buf)),
            valueSize |-> Uint32(SliceFrom(buf, 4))],
     rest |-> SliceFrom(buf, align(8 + Uint32(buf)))]

\* the vectors as the builder makes them of the same levels
selectVectorOf(b) ==
    [numBits |-> b.numBits, numOnes |-> b.numOnes, bits |-> b.bits,
     selectLut |-> b.selectLut]

rankVectorOf(b, blockSize) ==
    [numBits |-> b.numBits, blockSize |-> blockSize, bits |-> b.bits,
     rankLut |-> IF blockSize = rankDenseBlockSize THEN b.denseLut ELSE b.sparseLut]


(***************************************************************************)
(* The bit vectors as a state machine: the vectors are made of some levels, *)
(* then asked for one rank or select (the vectors never change, so one      *)
(* query tells nothing about the next); bq is the query and its answer.     *)
(***************************************************************************)
\* bit i of pattern p is set: every step-th bit, none in lo .. hi-1
PatternBit(p, i) == i % p.step = p.phase /\ ~(p.lo <= i /\ i < p.hi)

\* the level of n bits of pattern p
LevelOf(n, p) ==
    [n |-> n,
     bits |-> [w \in 1 .. numWords(n) |->
                 { b \in 0 .. wordSize - 1 :
                     /\ (w - 1) * wordSize + b < n
                     /\ PatternBit(p, (w - 1) * wordSize + b) }]]

BitPatterns ==
    { [step |-> x[1], phase |-> x[2], lo |-> g[1], hi |-> g[2]] :
        x \in { <<1, 0>>, <<3, 0>>, <<3, 2>>, <<7, 0>>, <<7, 6>> },
        g \in { <<0, 0>>, <<70, 400>> } }
    \cup { [step |-> 3, phase |-> 0, lo |-> 0, hi |-> 150] }

LevelLens == { 1, 64, 130, 512, 520 }

\* the levels the vectors are made of: one level, or two of which the first
\* ends inside a word
BitLevels ==
    { <<LevelOf(n, p)>> : n \in LevelLens, p \in BitPatterns }
    \cup { <<LevelOf(n1, p1), LevelOf(n2, p2)>> :
             n1 \in { 31, 97 }, n2 \in { 0, 33, 450 },
             p1 \in { p \in BitPatterns : p.hi = 0 /\ p.phase = 0 /\ p.step < 7 },
             p2 \in { p \in BitPatterns : p.hi = 0 /\ p.phase = 0 /\ p.step < 7 } }

BInit ==
    /\ TIdle /\ CIdle /\ MIdle /\ UIdle /\ WIdle /\ KIdle
    /\ \E levels \in BitLevels : bits = NewVectors(levels)
    /\ bq = [op |-> "new", arg |-> 0, res |-> 0]

BSelect ==
    /\ bq.op = "new"
    /\ \E rank \in 1 .. bits.numOnes :
          bq' = [op |-> "Select", arg |-> rank, res |-> Select(bits, rank)]
    /\ UNCHANGED <<bits, NotBits>>

BRankDense ==
    /\ bq.op = "new"
    /\ \E pos \in 0 .. bits.numBits - 1 :
          bq' = [op |-> "RankDense", arg |-> pos, res |-> RankDense(bits, pos)]
    /\ UNCHANGED <<bits, NotBits>>

BRankSparse ==
    /\ bq.op = "new"
    /\ \E pos \in 0 .. bits.numBits - 1 :
          bq' = [op |-> "RankSparse", arg |-> pos, res |-> RankSparse(bits, pos)]
    /\ UNCHANGED <<bits, NotBits>>

BDistanceToNext ==
    /\ bq.op = "new"
    /\ \E pos \in 0 .. bits.numBits - 1 :
          bq' = [op |-> "DistanceToNextSetBit", arg |-> pos,
                 res |-> DistanceToNextSetBit(bits, pos)]
    /\ UNCHANGED <<bits, NotBits>>

BDistanceToPrev ==
    /\ bq.op = "new"
    /\ \E pos \in 0 .. bits.numBits - 1 :
          bq' = [op |-> "DistanceToPrevSetBit", arg |-> pos,
                 res |-> DistanceToPrevSetBit(bits, pos)]
    /\ UNCHANGED <<bits, NotBits>>

\* the levels Init is applied to: those above, and three levels of which the
\* second is empty and the first ends inside a word or at the end of one
InitLevels ==
    BitLevels
    \cup { <<LevelOf(n1, p1), LevelOf(0, p1), LevelOf(n3, p3)>> :
             n1 \in { 64, 97 }, n3 \in { 31, 128, 200 },
             p1 \in { p \in BitPatterns : p.hi = 0 /\ p.phase = 0 /\ p.step < 7 },
             p3 \in { p \in BitPatterns : p.hi = 0 /\ p.step = 3 } }

\* bitVector.Init of a new vector: numBits and bits
BInitVector ==
    /\ bq.op = "new"
    /\ \E levels \in InitLevels :
          bq' = [op |-> "Init", arg |-> levels,
                 res |-> [numBits |-> sumBits(levels, 1),
                          bits |-> bitVectorInit(levels)]]
    /\ UNCHANGED <<bits, NotBits>>

labelTerminator == 255

\* labelVector.SearchGreaterThan without the step over a leading terminator
SearchGreaterThan_keepsTerminator(v, label, pos, size) ==
    LET result == SortSearch([i \in 1 .. size |-> v.labels[pos + i] > label])
    IN  IF result = size THEN <<pos + result - 1, FALSE>>
        ELSE <<pos + result, TRUE>>

\* labelVector.SearchGreaterThan: the position and whether a label was found
SearchGreaterThan(v, label, pos, size) ==
    IF size > 1 /\ v.labels[pos + 1] = labelTerminator
    THEN SearchGreaterThan_keepsTerminator(v, label, pos + 1, size - 1)
    ELSE SearchGreaterThan_keepsTerminator(v, label, pos, size)

\* the labels of some nodes, level by level
LabelLevels ==
    { << <<255, 3, 7, 200>>, <<5>>, <<255>>, <<3, 7, 9, 11, 255>> >>,
      << <<1, 2>>, <<255, 255>>, <<255, 0, 4, 8, 16, 32, 64>> >>,
      << <<0>>, <<254, 255>>, <<>>, <<255, 6>> >> }

\* the labels searched for
Labels == { 0, 3, 4, 7, 16, 200, 254, 255 }

\* the labels of the window [pos, pos + size) are in ascending order after an
\* optional leading terminator
IsNodeWindow(v, pos, size) ==
    /\ size >= 1
    /\ pos + size <= Len(v.labels)
    /\ \A i \in pos + 1 .. pos + size - 1 :
           \/ v.labels[i] < v.labels[i + 1]
           \/ i = pos + 1 /\ v.labels[i] = labelTerminator

BSearchGreaterThan ==
    /\ bq.op = "new"
    /\ \E ls \in LabelLevels, label \in Labels, pos \in 0 .. 12, size \in 1 .. 7 :
          /\ IsNodeWindow(labelVector_Init(ls, 0, Len(ls)), pos, size)
          /\ bq' = [op |-> "SearchGreaterThan",
                    arg |-> [v |-> labelVector_Init(ls, 0, Len(ls)),
                             label |-> label, pos |-> pos, size |-> size],
                    res |-> SearchGreaterThan(labelVector_Init(ls, 0, Len(ls)),
                                              label, pos, size)]
    /\ UNCHANGED <<bits, NotBits>>

\* the bytes after a marshalled vector in the buffer it is read from
Tails == { <<>>, <<1, 2, 3>>, <<0, 0, 0, 0, 0, 0, 0, 0, 9>> }

\* the levels of labels and of values
ByteLevels ==
    { <<[i \in 1 .. n |-> (37 * i + n) % 256]>> : n \in 0 .. 9 }
    \cup { <<[i \in 1 .. n |-> 255 - i], <<>>, [i \in 1 .. m |-> i]>> :
             n \in 1 .. 3, m \in { 0, 2, 5 } }

\* WriteTo into an empty writer, then Unmarshal of what was written with tail
\* after it
Marshalled(kind, v, size, raw, wrote, got, tail) ==
    [op |-> kind, arg |-> v, res |-> got, size |-> size, raw |-> raw,
     wrote |-> wrote, tail |-> tail]

BMarshalSelect ==
    /\ bq.op = "new"
    /\ \E tail \in Tails :
          bq' = Marshalled("selectVector", selectVectorOf(bits),
                           selectVector_MarshalSize(selectVectorOf(bits)),
                           selectVector_rawMarshalSize(selectVectorOf(bits)),
                           selectVector_WriteTo(selectVectorOf(bits)),
                           selectVector_Unmarshal(
                               selectVector_WriteTo(selectVectorOf(bits)) \o tail),
                           tail)
    /\ UNCHANGED <<bits, NotBits>>

BMarshalRank ==
    /\ bq.op = "new"
    /\ \E tail \in Tails, blockSize \in { rankDenseBlockSize, rankSparseBlockSize } :
          bq' = Marshalled("rankVector", rankVectorOf(bits, blockSize),
                           rankVector_MarshalSize(rankVectorOf(bits, blockSize)),
                           rankVector_rawMarshalSize(rankVectorOf(bits, blockSize)),
                           rankVector_WriteTo(rankVectorOf(bits, blockSize)),
                           rankVector_Unmarshal(
                               rankVector_WriteTo(rankVectorOf(bits, blockSize))
                               \o tail),
                           tail)
    /\ UNCHANGED <<bits, NotBits>>

BMarshalLabels ==
    /\ bq.op = "new"
    /\ \E tail \in Tails, ls \in ByteLevels, startLevel \in 0 .. 1 :
          /\ startLevel <= Len(ls)
          /\ bq' = Marshalled("labelVector",
                              labelVector_Init(ls, startLevel, Len(ls)),
                              labelVector_MarshalSize(
                                  labelVector_Init(ls, startLevel, Len(ls))),
                              labelVector_rawMarshalSize(
                                  labelVector_Init(ls, startLevel, Len(ls))),
                              labelVector_WriteTo(
                                  labelVector_Init(ls, startLevel, Len(ls))),
                              labelVector_Unmarshal(
                                  labelVector_WriteTo(
                                      labelVector_Init(ls, startLevel, Len(ls)))
                                  \o tail),
                              tail)
    /\ UNCHANGED <<bits, NotBits>>

BMarshalValues ==
    /\ bq.op = "new"
    /\ \E tail \in Tails, vs \in ByteLevels, valueSize \in { 1, 4, 300 } :
          bq' = Marshalled("valueVector", valueVector_Init(vs, valueSize),
                           valueVector_MarshalSize(valueVector_Init(vs, valueSize)),
                           valueVector_rawMarshalSize(valueVector_Init(vs, valueSize)),
                           valueVector_WriteTo(valueVector_Init(vs, valueSize)),
                           valueVector_Unmarshal(
                               valueVector_WriteTo(valueVector_Init(vs, valueSize))
                               \o tail),
                           tail)
    /\ UNCHANGED <<bits, NotBits>>

BNext ==
    \/ BSelect \/ BRankDense \/ BRankSparse \/ BDistanceToNext \/ BDistanceToPrev
    \/ BSearchGreaterThan \/ BInitVector
    \/ BMarshalSelect \/ BMarshalRank \/ BMarshalLabels \/ BMarshalValues

SpecBits == BInit /\ [][BNext]_vars

\* the number of set bits of the vector at the positions 0 .. pos
OnesUpTo(pos) ==
    Cardinality({ p \in 0 .. pos : p < bits.numBits /\ readBit(bits.bits, p) })

\* C19: Select(r), 1 <= r <= numOnes, is the position of the r-th set bit: the
\* bit there is set and r-1 set bits come before it, for ranks below, at and
\* above the sampling interval.
C19_SelectFindsRankthOne ==
    bq.op = "Select" =>
        /\ bq.res < bits.numBits
        /\ readBit(bits.bits, bq.res)
        /\ OnesUpTo(bq.res) = bq.arg

\* C20: Rank(pos), pos < numBits, of the dense and of the sparse rank vector is
\* the number of set bits at the positions 0 .. pos.
C20_RankCountsOnes ==
    bq.op \in { "RankDense", "RankSparse" } => bq.res = OnesUpTo(bq.arg)

\* a sparse rank in the second block, of a vector with set bits in both blocks
C20_Witness ==
    /\ bq.op = "RankSparse"
    /\ bq.arg >= rankSparseBlockSize
    /\ bits.sparseLut[2] > 0
    /\ bq.res > bits.sparseLut[2]

\* C21: DistanceToNextSetBit(pos), pos < numBits, of a vector with no set bit
\* after pos is numBits - pos, whether numBits is a multiple of the word size
\* or not, the last bit of the vector included.
C21_DistanceToEnd ==
    (bq.op = "DistanceToNextSetBit"
     /\ \A p \in bq.arg + 1 .. bits.numBits - 1 : ~readBit(bits.bits, p))
        => bq.res = bits.numBits - bq.arg

\* the vectors that WriteTo and Unmarshal were applied to
MarshalOps == { "selectVector", "rankVector", "labelVector", "valueVector" }

\* C25: for the select, rank, label and value vector, WriteTo emits exactly
\* MarshalSize() bytes, MarshalSize() is a multiple of 8 reached by padding
\* with zeros, and Unmarshal of the bytes gives a vector with the same fields
\* and the buffer advanced by MarshalSize() bytes.
C25_MarshalRoundTrip ==
    bq.op \in MarshalOps =>
        /\ Len(bq.wrote) = bq.size
        /\ bq.size % 8 = 0
        /\ bq.raw <= bq.size /\ bq.size - bq.raw < 8
        /\ \A i \in bq.raw + 1 .. bq.size : bq.wrote[i] = 0
        /\ bq.res.v = bq.arg
        /\ bq.res.rest = bq.tail

C25_Witness ==
    /\ bq.op = "rankVector"
    /\ bq.size > bq.raw
    /\ bq.tail # <<>>
    /\ bq.arg.numBits > wordSize
    /\ \E i \in 1 .. Len(bq.arg.bits) : bq.arg.bits[i] # {}

(***************************************************************************)
(* y.ValueStruct and its wire format.  A byte is a number in 0 .. 255, a   *)
(* slice a sequence; Go's b[lo:hi] is SubSeq(b, lo + 1, hi).  Versions     *)
(* stay below 2^31, so the upper bytes of the 8 are 0.                     *)
(***************************************************************************)
\* binary.LittleEndian.PutUint64: the n bytes of x, lowest first
RECURSIVE LittleEndian(_, _)
LittleEndian(x, n) ==
    IF n = 0 THEN <<>> ELSE <<x % 256>> \o LittleEndian(x \div 256, n - 1)

\* binary.LittleEndian.Uint64 of the bytes of b from index i on
RECURSIVE Uint64From(_, _)
Uint64From(b, i) == IF i > 8 THEN 0 ELSE b[i] + 256 * Uint64From(b, i + 1)

\* copy(dst[off:], src)
Copy(dst, off, src) ==
    [i \in 1 .. Len(dst) |->
        IF i > off /\ i - off <= Len(src) THEN src[i - off] ELSE dst[i]]

\* ValueStruct.EncodedSize
EncodedSize(v) == Len(v.Value) + Len(v.UserMeta) + 2 + 8

\* ValueStruct.Encode into the slice b
Encode(v, b) ==
    Copy(Copy(Copy(Copy(b, 0, LittleEndian(v.Version, 8)),
                   8, <<v.Meta, Len(v.UserMeta) % 256>>),
              8 + 2, v.UserMeta),
         8 + 2 + Len(v.UserMeta), v.Value)

\* Decode after b = b[8:], with userMetaEnd (a byte): the slice expressions
\* b[2:userMetaEnd] and b[userMetaEnd:] panic when out of range
decodeRest(version, b, userMetaEnd) ==
    IF (b[2] # 0 /\ (userMetaEnd < 2 \/ userMetaEnd > Len(b))) \/ userMetaEnd > Len(b)
    THEN [err |-> Panic,
          v |-> [Meta |-> b[1], UserMeta |-> <<>>, Value |-> <<>>, Version |-> version]]
    ELSE [err |-> Nil,
          v |-> [Meta |-> b[1],
                 UserMeta |-> IF b[2] # 0 THEN SubSeq(b, 3, userMetaEnd) ELSE <<>>,
                 Value |-> SubSeq(b, userMetaEnd + 1, Len(b)),
                 Version |-> version]]

\* ValueStruct.Decode: 2 + b[1] is computed in a byte
Decode(b) ==
    decodeRest(Uint64From(b, 1), SubSeq(b, 9, Len(b)), (2 + b[10]) % 256)

\* n bytes that start at seed and count up
BytesFrom(seed, n) == [i \in 1 .. n |-> (seed + i) % 256]

UserMetaLens == { 0, 1, 2, 253, 254, 255 }

ValueStructs ==
    { [Meta |-> m, UserMeta |-> BytesFrom(x, n), Value |-> BytesFrom(x + 7, k),
       Version |-> ver] :
        m \in { 0, 1, 255 }, n \in UserMetaLens, x \in { 0, 250 },
        k \in { 0, 1, 3 }, ver \in { 0, 1, 258, 2147483647 } }

ValueInit ==
    /\ TIdle /\ CIdle /\ MIdle /\ UIdle /\ BIdle /\ KIdle
    /\ vrec \in ValueStructs
    /\ vq = [op |-> "new", buf |-> <<>>, res |-> <<>>]

\* Encode into a slice of exactly EncodedSize() bytes
VEncode ==
    /\ vq.op = "new"
    /\ vq' = [op |-> "Encode",
              buf |-> Encode(vrec, [i \in 1 .. EncodedSize(vrec) |-> 0]),
              res |-> <<>>]
    /\ UNCHANGED <<vrec, NotValue>>

\* Decode of the bytes written
VDecode ==
    /\ vq.op = "Encode"
    /\ vq' = [vq EXCEPT !.op = "Decode", !.res = <<Decode(vq.buf)>>]
    /\ UNCHANGED <<vrec, NotValue>>

ValueNext == VEncode \/ VDecode

SpecValue == ValueInit /\ [][ValueNext]_vars

\* C22: for a ValueStruct with a UserMeta of 0 to 255 bytes and any Value,
\* Decode of the bytes Encode wrote into a slice of exactly EncodedSize()
\* bytes gives the same Version, Meta, UserMeta and Value.
C22_DecodeInvertsEncode ==
    vq.op = "Decode" => (vq.res[1].err = Nil /\ vq.res[1].v = vrec)

\* C23: once the error of a table iterator was set by a failed block read,
\* Valid() is false and a next() or prev() changes nothing: the error stays
\* set and Valid() stays false.
C23_ErrorIsSticky ==
    [][(it.err = ErrRead /\ (StepNext \/ StepPrev))
          => (~Valid(it) /\ it' = it)]_vars

\* C24: however often Close() is called on one iterator, numIterators of the
\* transaction and the iterator count of the value log are counted down once:
\* neither drops below the number of iterators still open (1 before the first
\* Close, 0 after it).
C24_CloseCountsDownOnce ==
    /\ ui.numIterators >= (IF ui.closed THEN 0 ELSE 1)
    /\ ui.iteratorCount >= (IF ui.closed THEN 0 ELSE 1)

(***************************************************************************)
(* Item.Value() of an item whose value is in the value log.  meta is the   *)
(* set of its bits; a value pointer is a slice of bytes, nil being <<>>.    *)
(* vrec holds the item, what the value log answers for each pointer and     *)
(* what the LSM tree holds under the move key of the item; vq is the call: *)
(* each activation of yieldItemValue is one step.                           *)
(***************************************************************************)
bitValuePointer == "bitValuePointer"

ErrRetry == "retry"

\* the pointers a value can be at
Pointers == { <<1>>, <<2>> }

\* Item.hasValue
hasValue(item) == ~(item.meta = {} /\ item.vptr = <<>>)

\* db.vlog.Read(vp, slice): <<result, err>>
vlogRead(env, vptr) ==
    IF vptr \in DOMAIN env.vlog THEN env.vlog[vptr] ELSE << <<>>, ErrRead >>

\* db.get(moveKey): [vs, err]
dbGet(env) == env.move

\* yieldItemValue after the value log answered ErrRetry: the move key is read
\* and, if it holds the version of the item, followed
yieldMoved(item, got) ==
    IF got.err # Nil THEN [ret |-> TRUE, val |-> <<>>, err |-> got.err]
    ELSE IF got.vs.Version # item.version
    THEN [ret |-> TRUE, val |-> <<>>, err |-> Nil]
    ELSE [ret |-> FALSE,
          item |-> [item EXCEPT !.vptr = got.vs.Value,
                                !.meta = @ \cup got.vs.Meta]]

\* yieldItemValue with the answer of the value log
yieldRead(item, env, read) ==
    IF read[2] # ErrRetry THEN [ret |-> TRUE, val |-> read[1], err |-> read[2]]
    ELSE yieldMoved(item, dbGet(env))

\* one activation of yieldItemValue: it returns <<val, err>>, or calls itself
\* on the item it changed
yieldActivation(item, env) ==
    IF ~hasValue(item) THEN [ret |-> TRUE, val |-> <<>>, err |-> Nil]
    ELSE IF bitValuePointer \notin item.meta
    THEN [ret |-> TRUE, val |-> item.vptr, err |-> Nil]
    ELSE yieldRead(item, env, vlogRead(env, item.vptr))

\* what the value log answers for a pointer
ReadAnswers == { << <<7>>, Nil >>, << <<>>, ErrRetry >>, << <<>>, ErrRead >> }

\* what is under the move key: nothing (the zero ValueStruct), a value
\* pointer of some version, or an error of the read
MoveAnswers ==
    { [vs |-> [Version |-> v, Value |-> p, Meta |-> m], err |-> e] :
        v \in 1 .. MaxVer, p \in Pointers, m \in { {}, { bitValuePointer } },
        e \in { Nil } }
    \cup { [vs |-> [Version |-> 0, Value |-> <<>>, Meta |-> {}], err |-> e] :
             e \in { Nil, ErrRead } }

RetryInit ==
    /\ TIdle /\ CIdle /\ MIdle /\ UIdle /\ BIdle /\ KIdle
    /\ \E meta \in { {}, { bitValuePointer } }, vptr \in Pointers \cup { <<>> },
          version \in 1 .. MaxVer, vlog \in [Pointers -> ReadAnswers],
          move \in MoveAnswers :
          vrec = [item |-> [meta |-> meta, vptr |-> vptr, version |-> version],
                  vlog |-> vlog, move |-> move]
    /\ vq = [op |-> "new", depth |-> 0, val |-> <<>>, err |-> Nil]

\* Item.Value() of an item that was not prefetched calls yieldItemValue
WValue ==
    /\ vq.op = "new"
    /\ vq' = [vq EXCEPT !.op = "call", !.depth = 1]
    /\ UNCHANGED <<vrec, NotValue>>

\* the activation returns
WReturn ==
    /\ vq.op = "call"
    /\ yieldActivation(vrec.item, vrec).ret
    /\ vq' = [vq EXCEPT !.op = "return",
                        !.val = yieldActivation(vrec.item, vrec).val,
                        !.err = yieldActivation(vrec.item, vrec).err]
    /\ UNCHANGED <<vrec, NotValue>>

\* the activation calls yieldItemValue again; the goroutine dies of a stack
\* overflow when the stack has no room for the call
WFollow ==
    /\ vq.op = "call"
    /\ ~yieldActivation(vrec.item, vrec).ret
    /\ vrec' = [vrec EXCEPT !.item = yieldActivation(vrec.item, vrec).item]
    /\ vq' = IF vq.depth < MaxDepth THEN [vq EXCEPT !.depth = @ + 1]
             ELSE [vq EXCEPT !.op = "stack overflow"]
    /\ UNCHANGED NotValue

RetryNext == WValue \/ WReturn \/ WFollow

\* the goroutine that called Value() keeps running
SpecRetry == RetryInit /\ [][RetryNext]_vars /\ WF_vars(RetryNext)

\* C26: Item.Value() on an item whose pointer the value log answers ErrRetry
\* for returns a value or an error, after following the move key a bounded
\* number of times, even if the value log answers ErrRetry for the moved
\* pointer too.
C26_ValueReturns == (vq.op = "call") ~> (vq.op = "return")

\* the stored entry after entry i is an older version of the same user key
HasOlder(i) == i < Len(tbl.stored) /\ tbl.stored[i + 1][1] = tbl.stored[i][1]

\* C27: for a key stored with an inline newest version and k >= 1 older
\* versions in the sidecar, each next() from a version of the key that has an
\* older one moves to that next older version, so that successive next()s from
\* the newest version yield every older version once, newest to oldest and the
\* oldest included, before the next entry.
C27_NextYieldsOlderVersions ==
    [][\A i \in 1 .. Len(tbl.stored) :
          (StepNext /\ Valid(it) /\ Shown(it) = tbl.stored[i] /\ HasOlder(i))
              => (Valid(it') /\ Shown(it') = tbl.stored[i + 1])]_vars

\* what an iterator shows from where it stands until it is invalid, stepping by
\* next() (dir = "next") or prev(); a table has fewer than fuel entries
RECURSIVE ShownUntilInvalid(_, _, _, _)
ShownUntilInvalid(itr, T, dir, fuel) ==
    IF ~Valid(itr) \/ fuel = 0 THEN <<>>
    ELSE <<Shown(itr)>>
         \o ShownUntilInvalid(IF dir = "next" THEN it_next(itr, T) ELSE it_prev(itr, T),
                              T, dir, fuel - 1)

\* seekToFirst and next()s, and seekToLast and prev()s, on a new iterator
ForwardRun(T, n) ==
    ShownUntilInvalid(it_seekToFirst(newIterator(T, FALSE), T), T, "next", n + 1)

BackwardRun(T, n) ==
    ShownUntilInvalid(it_seekToLast(newIterator(T, FALSE), T), T, "prev", n + 1)

\* C28: for any table, also one whose keys have several versions, what
\* seekToLast and repeated prev() show is the reverse of what seekToFirst and
\* repeated next() show: a run the iterator has made to its end in one
\* direction is the reverse of the run in the other direction.
C28_BackwardIsReverseOfForward ==
    /\ (h.op = "seekToLast" /\ ~Valid(it) /\ ~h.past /\ Alive)
           => h.out = Reverse(ForwardRun(tbl.t, Len(tbl.stored)))
    /\ (h.op = "seekToFirst" /\ ~Valid(it) /\ ~h.past /\ Alive)
           => h.out = Reverse(BackwardRun(tbl.t, Len(tbl.stored)))

\* the stored entry of user key u is stored without old versions
NoOldVersions(u) == Cardinality({ i \in 1 .. Len(tbl.stored) : tbl.stored[i][1] = u }) = 1

\* the index of the one stored entry of user key u
EntryOf(u) == CHOOSE i \in 1 .. Len(tbl.stored) : tbl.stored[i][1] = u

\* iterator itr stands on stored entry i, or is invalid when there is no entry i
StandsOn(itr, i) ==
    IF i \in 1 .. Len(tbl.stored) THEN Valid(itr) /\ Shown(itr) = tbl.stored[i]
    ELSE ~Valid(itr)

\* C29: after any sequence of seek, seekForPrev, next and prev, if the current
\* entry is stored without old versions then the version and value reported
\* are its own inline ones, never those of a key visited or probed before, and
\* the following next() or prev() moves to the adjacent entry.
C29_NoStaleVersions ==
    [][/\ (Valid(it') /\ NoOldVersions(it'.bi.key.UserKey))
              => StandsOn(it', EntryOf(it'.bi.key.UserKey))
       /\ (Valid(it) /\ NoOldVersions(it.bi.key.UserKey) /\ StepNext)
              => StandsOn(it', EntryOf(it.bi.key.UserKey) + 1)
       /\ (Valid(it) /\ NoOldVersions(it.bi.key.UserKey) /\ StepPrev)
              => StandsOn(it', EntryOf(it.bi.key.UserKey) - 1)]_vars

(***************************************************************************)
(* Iterator.seek of a table with a SuRF index.  The index answers a user   *)
(* key with the position (block, offset in the block) of an entry, or with *)
(* nothing.                                                                *)
(***************************************************************************)
\* the positions of the entries of table T
Positions(T) ==
    { p \in [blockIdx : 0 .. NumBlocks(T) - 1, offset : 0 .. MaxPer - 1] :
        p.offset < Len(T.blocks[p.blockIdx + 1].entries) }

\* the user key of the entry at position p
UserKeyAt(T, p) ==
    SubSeq(T.blocks[p.blockIdx + 1].baseKey, 1, T.blocks[p.blockIdx + 1].baseLen)
    \o SubSeq(T.blocks[p.blockIdx + 1].entries[p.offset + 1], 2,
              T.blocks[p.blockIdx + 1].entries[p.offset + 1][1] + 1)

\* position p is not past position q
NotPast(p, q) ==
    p.blockIdx < q.blockIdx \/ (p.blockIdx = q.blockIdx /\ p.offset <= q.offset)

\* the positions of the entries whose user key is >= userKey
PositionsGE(T, userKey) ==
    { p \in Positions(T) : BytesCompare(UserKeyAt(T, p), userKey) >= 0 }

\* the first of them
FirstPositionGE(T, userKey) ==
    CHOOSE p \in PositionsGE(T, userKey) :
        \A q \in PositionsGE(T, userKey) : NotPast(p, q)

\* surf.Iterator.Seek, Valid and Value: valid exactly when a stored user key is
\* >= userKey, and then on a position that is not past the first such entry
SurfSeek(T, userKey) ==
    IF PositionsGE(T, userKey) = {} THEN { [valid |-> FALSE] }
    ELSE { [valid |-> TRUE, pos |-> p] :
             p \in { q \in Positions(T) : NotPast(q, FirstPositionGE(T, userKey)) } }

\* Iterator.seek of a table with a SuRF index, sit being what the index answers
it_seekSurf(itr, T, key, sit) ==
    IF ~sit.valid THEN [reset([itr EXCEPT !.err = Nil]) EXCEPT !.err = EOF]
    ELSE seekFromOffset(reset([itr EXCEPT !.err = Nil]), T,
                        sit.pos.blockIdx, sit.pos.offset, key)

SeekSurf ==
    /\ Alive
    /\ \E q \in SeekKeys : \E sit \in SurfSeek(tbl.t, q.UserKey) :
          /\ it' = it_seekSurf(it, tbl.t, q, sit)
          /\ h' = Started("seek", q, it')
    /\ UNCHANGED <<tbl, NotTable>>

SurfNext == TNext \/ SeekSurf

SpecSurf == TInit /\ [][SurfNext]_vars

\* two iterators are in the same state: both invalid, or both valid on the
\* same user key, version and value
SameState(a, b) == Valid(a) = Valid(b) /\ (Valid(a) => Shown(a) = Shown(b))

\* C30: for a table with a SuRF index whose Seek is valid exactly when some
\* stored user key >= the user key sought exists and then gives a position not
\* past the first such entry, seek(q) through SuRF ends in the same state
\* (validity, user key, version, value) as the seek through the block index
\* (seekFrom), for every user key and version sought.
C30_SurfSeekAsSeekFrom ==
    [][h'.op = "seek" => SameState(it', it_seek(it, tbl.t, h'.key))]_vars

\* C31: from a valid position that is not the first entry of the table, prev()
\* followed by next() brings the iterator back to the same user key, version
\* and value, and from one that is not the last entry so does next() followed
\* by prev(), also across a block boundary.
C31_BackAndForth ==
    [][\A i \in 1 .. Len(tbl.stored) :
          (h.op # "new" /\ StandsOn(it, i)) =>
              /\ (StepPrev /\ i > 1) => StandsOn(it_next(it', tbl.t), i)
              /\ (StepNext /\ i < Len(tbl.stored))
                     => StandsOn(it_prev(it', tbl.t), i)]_vars

\* C32: every call of parseItem moves the merged iterator on by at least one
\* entry, on every path (a key of badger's own skipped, a version above readTs,
\* a user key seen before, a deleted entry, an item accepted), so the loops of
\* Next, Rewind and Seek end on every finite snapshot.
C32_ParseItemAdvances ==
    [][UParseItem => (ui'.pos > ui.pos /\ ui'.pos <= Len(uenv.stream) + 1)]_vars

\* C32's case: the loop ran to the end of a snapshot that holds a key of
\* badger's own and a deleted entry, with calls that accepted an item and
\* calls that did not
C32_Witness ==
    /\ uh.op = "parseItem"
    /\ ~mi_Valid(ui, uenv)
    /\ Len(uh.out) >= 3
    /\ \E i, j \in 1 .. Len(uh.out) : uh.out[i] /\ ~uh.out[j]
    /\ ~uenv.internalAccess
    /\ \E i, j \in 1 .. Len(uenv.stream) :
          /\ HasPrefix(uenv.stream[i][1], badgerPrefix)
          /\ uenv.stream[j][3].Meta = Deleted

\* C33: fill() is never applied to an item whose task has not completed: no
\* item on the waste list has a task outstanding, and no item ever has two,
\* after any sequence of Rewind, Seek and Next.
C33_NoFillOverPendingTask ==
    /\ \A j \in 1 .. Len(ui.waste) : ui.pool[ui.waste[j]].wg = 0
    /\ \A id \in 1 .. Len(ui.pool) : ui.pool[id].wg <= 1

\* C33's case: Next() has taken an item from waste and filled it again (more
\* items were shown or queued than were ever made), and its task is running
C33_Witness ==
    /\ uh.op = "Next"
    /\ Len(uh.out) + Len(ui.data) > Len(ui.pool)
    /\ ui.data # <<>>
    /\ ui.pool[ui.data[Len(ui.data)]].wg = 1

\* the iterator that prefetches values, moved and left to its tasks
FifoNext == URewind \/ USeek \/ UNext \/ UTask

SpecFifo == PrefetchInit /\ [][FifoNext]_vars

\* the items a new iterator shows from where it stands by repeated Next(), the
\* tasks of the items left aside; a snapshot has fewer than fuel entries
RECURSIVE ItemsUntilInvalid(_, _, _)
ItemsUntilInvalid(s, E, fuel) ==
    IF ~ui_Valid(s) \/ fuel = 0 THEN <<>>
    ELSE <<ItemShown(s, s.item)>> \o ItemsUntilInvalid(ui_Next(s, E), E, fuel - 1)

\* what Seek(key), or Rewind() when key is empty, and repeated Next() show on a
\* new iterator over the same snapshot with the options PrefetchValues = pv
\* and PrefetchSize = n
ItemsWith(pv, n, key) ==
    ItemsUntilInvalid(
        ui_Seek([pos |-> 1, item |-> 0, data |-> <<>>, waste |-> <<>>,
                 lastKey |-> <<>>, pool |-> <<>>, closed |-> FALSE,
                 numIterators |-> 1, iteratorCount |-> 1],
                [uenv EXCEPT !.PrefetchValues = pv, !.PrefetchSize = n], key),
        [uenv EXCEPT !.PrefetchValues = pv, !.PrefetchSize = n],
        Len(uenv.stream) + 1)

\* C34: for the same snapshot, direction and AllVersions, what Rewind or Seek
\* and repeated Next show is the same sequence of items for every
\* PrefetchValues and PrefetchSize and every interleaving of the tasks: data
\* hands the accepted items on first in first out, none lost, none twice.
C34_SameItemsForEveryPrefetch ==
    uh.calls >= 1 =>
        /\ ui_Valid(ui) => (uh.out # <<>>
                            /\ uh.out[Len(uh.out)] = ItemShown(ui, ui.item))
        /\ ~ui_Valid(ui) =>
               \A pv \in BOOLEAN, n \in 0 .. MaxPrefetch + 2 :
                   uh.out = ItemsWith(pv, n, uh.key)

\* C34's case: with tasks running, Next() has shown the last of three items or
\* more, after an earlier Rewind or Seek had left items behind
C34_Witness ==
    /\ uh.calls = 2
    /\ uh.op = "Next"
    /\ Len(uh.out) >= 3
    /\ ~ui_Valid(ui)
    /\ Pending # {}

(***************************************************************************)
(* The iterator contract of package y, SeekToVersion and BoundedIterator.  *)
(* The iterator behind the bounds runs over the user keys of a snapshot,   *)
(* each with its versions newest first: bnd.pos is the user key it is on   *)
(* (0 and Len(keys) + 1 are the two ends), bnd.ver the version.            *)
(***************************************************************************)
\* Iterator.Valid
y_Valid(s) == s.pos >= 1 /\ s.pos <= Len(s.keys)

\* Iterator.Key
y_Key(s) == MkKey(s.keys[s.pos], s.vers[s.pos][s.ver])

\* Iterator.Seek: the first user key >= key, in reverse the last user key <= key,
\* on its latest version
y_Seek(s, key) ==
    LET ge == [i \in 1 .. Len(s.keys) |-> BytesCompare(s.keys[i], key) >= 0]
        gt == [i \in 1 .. Len(s.keys) |-> BytesCompare(s.keys[i], key) > 0]
    IN  [s EXCEPT !.pos = IF s.reverse THEN SortSearch(gt) ELSE SortSearch(ge) + 1,
                  !.ver = 1]

\* Iterator.Next: the next entry with a different key, on its latest version
y_Next(s) == [s EXCEPT !.pos = IF s.reverse THEN s.pos - 1 ELSE s.pos + 1, !.ver = 1]

\* Iterator.NextVersion: the next older version of the same key and true, or
\* the same entry and false
y_NextVersion(s) ==
    IF s.ver < Len(s.vers[s.pos]) THEN <<[s EXCEPT !.ver = s.ver + 1], TRUE>>
    ELSE <<s, FALSE>>

\* the loop of SeekToVersion
RECURSIVE olderUntil(_, _)
olderUntil(s, version) ==
    LET r == y_NextVersion(s)
    IN  IF ~r[2] THEN <<r[1], FALSE>>
        ELSE IF version >= y_Key(r[1]).Version THEN <<r[1], TRUE>>
        ELSE olderUntil(r[1], version)

\* SeekToVersion without the test of the version the iterator is on
SeekToVersion_skipsCurrent(s, version) == olderUntil(s, version)

\* SeekToVersion: the iterator and what is returned
SeekToVersion(s, version) ==
    IF version >= y_Key(s).Version THEN <<s, TRUE>>
    ELSE olderUntil(s, version)

\* BoundedIterator.Seek
li_Seek(s, key) ==
    IF s.reverse
    THEN y_Seek(s, IF BytesCompare(s.end, key) < 0 THEN s.end ELSE key)
    ELSE y_Seek(s, IF BytesCompare(key, s.start) < 0 THEN s.start ELSE key)

\* BoundedIterator.Rewind
li_Rewind(s) == IF s.reverse THEN y_Seek(s, s.end) ELSE y_Seek(s, s.start)

\* BoundedIterator.Valid
li_Valid(s) ==
    IF ~y_Valid(s) THEN FALSE
    ELSE IF s.reverse THEN BytesCompare(s.start, y_Key(s).UserKey) <= 0
    ELSE BytesCompare(y_Key(s).UserKey, s.end) < 0

\* the version lists of n user keys
RECURSIVE VersionLists(_)
VersionLists(n) ==
    IF n = 0 THEN { <<>> }
    ELSE { <<SortedVersions(V)>> \o r :
               V \in (SUBSET (1 .. MaxVer)) \ {{}}, r \in VersionLists(n - 1) }

\* a snapshot of some user keys behind bounds start <= end, in either direction
BoundedInit ==
    /\ TIdle /\ CIdle /\ MIdle /\ UIdle /\ BIdle /\ WIdle
    /\ \E K \in SUBSET UserKeys, start \in UserKeys, end \in UserKeys,
          reverse \in BOOLEAN :
          /\ BytesCompare(start, end) <= 0
          /\ \E vs \in VersionLists(Cardinality(K)) :
                 bnd = [keys |-> SortedKeys(K), vers |-> vs, reverse |-> reverse,
                        start |-> start, end |-> end, pos |-> 0, ver |-> 1]
    /\ bh = [op |-> "new", arg |-> <<>>, res |-> FALSE, from |-> 0]

KRewind ==
    /\ bnd' = li_Rewind(bnd)
    /\ bh' = [op |-> "Rewind", arg |-> <<>>, res |-> FALSE, from |-> bnd.pos]
    /\ UNCHANGED NotBounded

KSeek ==
    /\ \E key \in UserKeys \cup { <<>>, <<3>> } :
          /\ bnd' = li_Seek(bnd, key)
          /\ bh' = [op |-> "Seek", arg |-> key, res |-> FALSE, from |-> bnd.pos]
    /\ UNCHANGED NotBounded

\* Next() is called while Valid() is true
KNext ==
    /\ bh.op # "new"
    /\ li_Valid(bnd)
    /\ bnd' = y_Next(bnd)
    /\ bh' = [op |-> "Next", arg |-> <<>>, res |-> FALSE, from |-> bnd.pos]
    /\ UNCHANGED NotBounded

\* SeekToVersion is called on a valid iterator, on the newest version of a key
KSeekToVersion ==
    /\ bh.op # "new"
    /\ li_Valid(bnd)
    /\ bnd.ver = 1
    /\ \E t \in SeekVersions :
          LET r == SeekToVersion(bnd, t)
          IN  /\ bnd' = r[1]
              /\ bh' = [op |-> "SeekToVersion", arg |-> t, res |-> r[2],
                        from |-> bnd.pos]
    /\ UNCHANGED NotBounded

BoundedNext == KRewind \/ KSeek \/ KNext \/ KSeekToVersion

SpecBounded == BoundedInit /\ [][BoundedNext]_vars

\* C35: every entry a BoundedIterator shows while Valid() is true, after
\* Rewind() or Seek(key) and any number of Next(), has start <= user key < end,
\* forward and in reverse.
C35_WithinBounds ==
    (bh.op \in {"Rewind", "Seek", "Next"} /\ li_Valid(bnd)) =>
        /\ BytesCompare(bnd.start, y_Key(bnd).UserKey) <= 0
        /\ BytesCompare(y_Key(bnd).UserKey, bnd.end) < 0

\* the versions of the user key the iterator was on that are <= t
VersionsUpTo(s, pos, t) == { s.vers[pos][j] : j \in 1 .. Len(s.vers[pos]) } \cap (0 .. t)

\* C36: on a valid iterator on the newest version of a user key,
\* SeekToVersion(it, t) returns true exactly when the key has a version <= t
\* and then leaves the iterator on the largest such version of the same key;
\* when it returns false the iterator is still valid and on the same key.
C36_SeekToVersionFindsLargestLE ==
    bh.op = "SeekToVersion" =>
        /\ bh.res <=> VersionsUpTo(bnd, bh.from, bh.arg) # {}
        /\ y_Valid(bnd)
        /\ bnd.pos = bh.from
        /\ bh.res => y_Key(bnd).Version = MaxOf(VersionsUpTo(bnd, bh.from, bh.arg))

\* C36's case: SeekToVersion has passed the newest version of the key and
\* stopped on an older one
C36_Witness ==
    /\ bh.op = "SeekToVersion"
    /\ bh.res
    /\ bnd.ver > 1
    /\ bh.arg < bnd.vers[bnd.pos][1]

\* the set positions of the vector after pos, and those before pos
SetAfter(pos) == { p \in pos + 1 .. bits.numBits - 1 : readBit(bits.bits, p) }

SetBefore(pos) == { p \in 0 .. pos - 1 : readBit(bits.bits, p) }

\* C37: when some bit after pos is set, DistanceToNextSetBit(pos) is p - pos
\* with p the smallest set position > pos, in the word of pos + 1 or in a
\* later word.
C37_DistanceToNextSetBit ==
    (bq.op = "DistanceToNextSetBit" /\ SetAfter(bq.arg) # {}) =>
        /\ bq.arg + bq.res \in SetAfter(bq.arg)
        /\ \A p \in SetAfter(bq.arg) : bq.arg + bq.res <= p

\* C37's case: the next set bit lies words after pos + 1, not at the start of
\* its word, and pos + 1 not at the start of its word either
C37_Witness ==
    /\ bq.op = "DistanceToNextSetBit"
    /\ SetAfter(bq.arg) # {}
    /\ bq.res > 2 * wordSize
    /\ (bq.arg + 1) % wordSize # 0
    /\ (bq.arg + bq.res) % wordSize # 0

\* C38: DistanceToPrevSetBit(pos), pos < numBits, is pos - p with p the largest
\* set position < pos, and pos + 1 when no bit before pos is set (1 for pos = 0).
C38_DistanceToPrevSetBit ==
    bq.op = "DistanceToPrevSetBit" =>
        IF SetBefore(bq.arg) = {} THEN bq.res = bq.arg + 1
        ELSE /\ bq.arg - bq.res \in SetBefore(bq.arg)
             /\ \A p \in SetBefore(bq.arg) : p <= bq.arg - bq.res

\* C38's case: no bit is set in the words before pos - 1 nor in its word, in a
\* vector that has set bits
C38_Witness ==
    /\ bq.op = "DistanceToPrevSetBit"
    /\ SetBefore(bq.arg) = {}
    /\ bq.arg > 2 * wordSize
    /\ bq.arg % wordSize # 0
    /\ bits.numOnes > 0

\* the positions of the window searched whose label is greater than the label
\* asked for, a leading terminator of a window of more than one label aside
GreaterInWindow(a) ==
    { p \in a.pos .. a.pos + a.size - 1 :
        /\ a.v.labels[p + 1] > a.label
        /\ ~(p = a.pos /\ a.size > 1 /\ a.v.labels[p + 1] = labelTerminator) }

\* C39: over a window [pos, pos + size) whose labels ascend after an optional
\* leading terminator, SearchGreaterThan(label, pos, size) returns (p, true)
\* with p the smallest position of the window, a leading terminator aside when
\* size > 1, whose label is greater than label, and (the last position of the
\* window, false) when there is none.
C39_SearchGreaterThan ==
    bq.op = "SearchGreaterThan" =>
        IF GreaterInWindow(bq.arg) = {}
        THEN bq.res = <<bq.arg.pos + bq.arg.size - 1, FALSE>>
        ELSE /\ bq.res[2]
             /\ bq.res[1] \in GreaterInWindow(bq.arg)
             /\ \A p \in GreaterInWindow(bq.arg) : bq.res[1] <= p

\* C39's case: the window begins with a terminator, which is greater than the
\* label asked for, and the label found is neither the first after the
\* terminator nor the last of the window
C39_Witness ==
    /\ bq.op = "SearchGreaterThan"
    /\ bq.arg.size > 3
    /\ bq.arg.v.labels[bq.arg.pos + 1] = labelTerminator
    /\ bq.res[2]
    /\ bq.res[1] > bq.arg.pos + 1
    /\ bq.res[1] < bq.arg.pos + bq.arg.size - 1

\* the number of bits of the levels before level l
RECURSIVE BitsBefore(_, _)
BitsBefore(levels, l) ==
    IF l <= 1 THEN 0 ELSE BitsBefore(levels, l - 1) + levels[l - 1].n

\* C40: Init concatenates the levels: numBits is the sum of the bit counts, bit
\* i of level l is the bit at (the bit counts of the levels before l) + i,
\* whether the levels end at the end of a word or inside one and with empty
\* levels skipped, and every bit at a position >= numBits is zero.
C40_InitConcatenatesLevels ==
    bq.op = "Init" =>
        /\ bq.res.numBits = BitsBefore(bq.arg, Len(bq.arg) + 1)
        /\ Len(bq.res.bits) * wordSize >= bq.res.numBits
        /\ \A l \in 1 .. Len(bq.arg) : \A i \in 0 .. bq.arg[l].n - 1 :
               readBit(bq.res.bits, BitsBefore(bq.arg, l) + i)
                   <=> readBit(bq.arg[l].bits, i)
        /\ \A p \in bq.res.numBits .. Len(bq.res.bits) * wordSize - 1 :
               ~readBit(bq.res.bits, p)

\* C40's case: three levels, the first ending inside a word, the second
\* empty, the third of complete words and some bits more, with a set bit in
\* each of its words
C40_Witness ==
    /\ bq.op = "Init"
    /\ Len(bq.arg) = 3
    /\ bq.arg[1].n % wordSize # 0
    /\ bq.arg[2].n = 0
    /\ bq.arg[3].n > 2 * wordSize
    /\ bq.arg[3].n % wordSize # 0
    /\ \A w \in 1 .. Len(bq.arg[3].bits) : bq.arg[3].bits[w] # {}
    /\ bq.res.numBits % wordSize # 0

====
